---- MODULE Spec2Model ----
(***************************************************************************)
(* Approval-gated JIRA command workflow (mrsukkk/JIRA-AUTOMATION).         *)
(*                                                                         *)
(* State: the process-wide ApprovalManager (pending_approvals,             *)
(* approval_history), the per-user conversation state kept by the web      *)
(* front end (user_conversations), and the mutating calls made on the      *)
(* external ticket system (jira_calls).                                    *)
(*                                                                         *)
(* Operations are functions from the state they read to their outcome      *)
(* (return value, exception raised, response texts, new registry); the     *)
(* actions apply them.  Chat messages are character strings, and the       *)
(* str / re operations of agent_node are evaluated on their characters.    *)
(***************************************************************************)
EXTENDS Integers, Sequences, FiniteSets, Bags, TLC

VARIABLES
    pending_approvals,   \* ApprovalManager.pending_approvals: dict in insertion order
    approval_history,    \* ApprovalManager.approval_history: list
    user_conversations,  \* web/app.py user_conversations[username]["state"]
    jira_calls,          \* bag of the mutating calls made on the ticket system
    threads              \* position and locals of concurrently running approve/reject calls

vars == <<pending_approvals, approval_history, user_conversations, jira_calls, threads>>

(***************************************************************************)
(* Bounds of the model.                                                    *)
(***************************************************************************)
MaxRequests == 2     \* approval requests created in one behaviour
MaxCalls == 2        \* mutating ticket-system calls recorded in one behaviour

None == "<None>"

\* the users who hold a conversation
Users == {"alice", "bob"}

\* the logged-in user who presses approve / reject in the front end
Reviewers == {"alice"}

\* uuid.uuid4(): a fresh identifier; the n-th request created gets ToString(n)
RequestIds == {ToString(n) : n \in 1..(MaxRequests + 1)}

PENDING == "pending"
APPROVED == "approved"
REJECTED == "rejected"
EXPIRED == "expired"

(***************************************************************************)
(* ApprovalManager: pure readers over (pending, history).                  *)
(***************************************************************************)
SeqRange(s) == {s[i] : i \in DOMAIN s}

Remove(s, i) == [k \in 1..(Len(s) - 1) |-> IF k < i THEN s[k] ELSE s[k + 1]]

\* `request_id in self.pending_approvals`
InPending(pend, id) == \E i \in DOMAIN pend : pend[i].request_id = id

PendingIndex(pend, id) == CHOOSE i \in DOMAIN pend : pend[i].request_id = id

\* first history entry with this id (the `for ... break` loops)
HistoryHits(hist, id) == {i \in DOMAIN hist : hist[i].request_id = id}

FirstHistoryIndex(hist, id) ==
    CHOOSE i \in HistoryHits(hist, id) : \A j \in HistoryHits(hist, id) : i <= j

get_approval(pend, id) == pend[PendingIndex(pend, id)]

is_approved_pending_only(pend, hist, id) ==
    InPending(pend, id) /\ pend[PendingIndex(pend, id)].status = APPROVED

is_approved(pend, hist, id) ==
    IF InPending(pend, id)
    THEN pend[PendingIndex(pend, id)].status = APPROVED
    ELSE IF HistoryHits(hist, id) # {}
         THEN hist[FirstHistoryIndex(hist, id)].status = APPROVED
         ELSE FALSE

get_pending_approvals_view(pend) == [shared |-> TRUE, items |-> pend]

\* list(self.pending_approvals.values()): a new list object, not shared with the
\* registry, holding the pending requests in insertion order
get_pending_approvals(pend) == [shared |-> FALSE, items |-> pend]

\* the registry's pending collection after the caller has changed the contents of the
\* list `returned` to `items`
PendingAfterCallerWrites(pend, returned, items) ==
    IF returned.shared THEN items ELSE pend

(***************************************************************************)
(* ApprovalManager: mutators, as functions from the registry to the new    *)
(* registry and the return value.                                          *)
(***************************************************************************)
NewRequestId_PendingCount(pend, hist) == ToString(Len(pend) + 1)

NewRequestId(pend, hist) == ToString(Len(pend) + Len(hist) + 1)

create_approval_request(pend, hist, operation_type, preview, ticket_key) ==
    LET approval == [request_id |-> NewRequestId(pend, hist),
                     operation_type |-> operation_type,
                     ticket_key |-> ticket_key,
                     preview |-> preview,
                     status |-> PENDING,
                     approved_by |-> None,
                     rejection_reason |-> None]
    IN  [pending |-> Append(pend, approval), history |-> hist, ret |-> approval]

approve_keep_pending(pend, hist, id, approved_by) ==
    IF ~InPending(pend, id)
    THEN [pending |-> pend, history |-> hist, ret |-> FALSE]
    ELSE LET i == PendingIndex(pend, id)
             approval == [pend[i] EXCEPT !.status = APPROVED, !.approved_by = approved_by]
         IN  [pending |-> [pend EXCEPT ![i] = approval],
              history |-> Append(hist, approval), ret |-> TRUE]

approve_decided_again(pend, hist, id, approved_by) ==
    IF ~InPending(pend, id)
    THEN [pending |-> pend, history |-> hist, ret |-> HistoryHits(hist, id) # {}]
    ELSE LET i == PendingIndex(pend, id)
             approval == [pend[i] EXCEPT !.status = APPROVED, !.approved_by = approved_by]
         IN  [pending |-> Remove(pend, i), history |-> Append(hist, approval), ret |-> TRUE]

approve(pend, hist, id, approved_by) ==
    IF ~InPending(pend, id)
    THEN [pending |-> pend, history |-> hist, ret |-> FALSE]
    ELSE LET i == PendingIndex(pend, id)
             approval == [pend[i] EXCEPT !.status = APPROVED, !.approved_by = approved_by]
         IN  [pending |-> Remove(pend, i), history |-> Append(hist, approval), ret |-> TRUE]

reject_keep_pending(pend, hist, id, reason, rejected_by) ==
    IF ~InPending(pend, id)
    THEN [pending |-> pend, history |-> hist, ret |-> FALSE]
    ELSE LET i == PendingIndex(pend, id)
             approval == [pend[i] EXCEPT !.status = REJECTED,
                                         !.rejection_reason = reason,
                                         !.approved_by = rejected_by]
         IN  [pending |-> [pend EXCEPT ![i] = approval],
              history |-> Append(hist, approval), ret |-> TRUE]

reject_overrides_decision(pend, hist, id, reason, rejected_by) ==
    IF ~InPending(pend, id)
    THEN IF HistoryHits(hist, id) = {}
         THEN [pending |-> pend, history |-> hist, ret |-> FALSE]
         ELSE [pending |-> pend,
               history |-> [hist EXCEPT ![FirstHistoryIndex(hist, id)].status = REJECTED],
               ret |-> TRUE]
    ELSE LET i == PendingIndex(pend, id)
             approval == [pend[i] EXCEPT !.status = REJECTED,
                                         !.rejection_reason = reason,
                                         !.approved_by = rejected_by]
         IN  [pending |-> Remove(pend, i), history |-> Append(hist, approval), ret |-> TRUE]

reject(pend, hist, id, reason, rejected_by) ==
    IF ~InPending(pend, id)
    THEN [pending |-> pend, history |-> hist, ret |-> FALSE]
    ELSE LET i == PendingIndex(pend, id)
             approval == [pend[i] EXCEPT !.status = REJECTED,
                                         !.rejection_reason = reason,
                                         !.approved_by = rejected_by]
         IN  [pending |-> Remove(pend, i), history |-> Append(hist, approval), ret |-> TRUE]

(***************************************************************************)
(* Preview builders (tools/jira_operations_approved.py).  `current` is the *)
(* result of the read-only get_ticket_details call: a details record, or   *)
(* NoDetails when the fetch raised and the builder fell back to {}.        *)
(***************************************************************************)
OperationTypes == {"create_ticket", "update_ticket", "transition_ticket",
                   "assign_ticket", "add_comment"}

NoDetails == [fetched |-> FALSE]

SomeDetails == [fetched |-> TRUE, summary |-> "old summary", description |-> "old text",
                status |-> "open", assignee |-> "carol", priority |-> "High"]

\* dict.get(key, default)
GetOr(d, key, default) == IF key \in DOMAIN d THEN d[key] ELSE default

Get(d, key) == GetOr(d, key, None)

TruncateLimit == 100

\* text[:100] + "..."
Shorten(text) ==
    SubSeq(text, 1, IF Len(text) < TruncateLimit THEN Len(text) ELSE TruncateLimit) \o "..."

create_ticket_with_approval(pend, hist, project_key, summary, description, issue_type, assignee, priority) ==
    LET preview == [project |-> project_key,
                    summary |-> summary,
                    description |-> description,
                    issue_type |-> issue_type,
                    assignee |-> IF assignee \in {None, ""} THEN "Unassigned" ELSE assignee,
                    priority |-> IF priority \in {None, ""} THEN "Medium" ELSE priority,
                    labels |-> <<>>]
    IN  create_approval_request(pend, hist, "create_ticket", preview, None)

update_ticket_with_approval(pend, hist, ticket_key, summary, description, assignee, status, priority, current) ==
    LET preview == [ticket_key |-> ticket_key,
                    current_summary |-> Get(current, "summary"),
                    new_summary |-> summary,
                    current_description |->
                        IF Get(current, "description") \notin {None, ""}
                        THEN Shorten(current.description) ELSE None,
                    new_description |->
                        IF description \notin {None, ""} THEN Shorten(description) ELSE None,
                    current_assignee |-> Get(current, "assignee"),
                    new_assignee |-> assignee,
                    current_status |-> Get(current, "status"),
                    new_status |-> status,
                    current_priority |-> Get(current, "priority"),
                    new_priority |-> priority,
                    current_labels |-> <<>>,
                    new_labels |-> None]
    IN  create_approval_request(pend, hist, "update_ticket", preview, ticket_key)

transition_ticket_with_approval_needs_current(pend, hist, ticket_key, target_status, comment, current) ==
    LET preview == [ticket_key |-> ticket_key,
                    current_status |-> Get(current, "status"),
                    target_status |-> IF current.fetched THEN target_status ELSE None,
                    comment |-> comment]
    IN  create_approval_request(pend, hist, "transition_ticket", preview, ticket_key)

transition_ticket_with_approval(pend, hist, ticket_key, target_status, comment, current) ==
    LET preview == [ticket_key |-> ticket_key,
                    current_status |-> Get(current, "status"),
                    target_status |-> target_status,
                    comment |-> comment]
    IN  create_approval_request(pend, hist, "transition_ticket", preview, ticket_key)

assign_ticket_with_approval(pend, hist, ticket_key, assignee, current) ==
    LET preview == [ticket_key |-> ticket_key,
                    current_assignee |-> GetOr(current, "assignee", "Unassigned"),
                    new_assignee |-> assignee]
    IN  create_approval_request(pend, hist, "assign_ticket", preview, ticket_key)

add_comment_with_approval(pend, hist, ticket_key, comment_body, visibility) ==
    LET preview == [ticket_key |-> ticket_key,
                    comment |-> comment_body,
                    visibility |-> visibility]
    IN  create_approval_request(pend, hist, "add_comment", preview, ticket_key)

(***************************************************************************)
(* Executors (tools/jira_operations_approved.py).  Each returns            *)
(*   raised: None, or the exception that leaves the function;              *)
(*   call:   None, or the mutating call made on the ticket system.         *)
(* `jira_ok` says whether the ticket system accepts the call; a refused    *)
(* call has still been invoked.                                            *)
(***************************************************************************)
ExecutorNames == {"execute_create_ticket", "execute_update_ticket",
                  "execute_transition_ticket", "execute_assign_ticket",
                  "execute_add_comment"}

\* get_approval(id), else the first history entry with this id
LookupFound(pend, hist, id) == InPending(pend, id) \/ HistoryHits(hist, id) # {}

Lookup(pend, hist, id) ==
    IF InPending(pend, id) THEN pend[PendingIndex(pend, id)]
    ELSE hist[FirstHistoryIndex(hist, id)]

ExecutorAllowed_AnyDecided(pend, hist, id) ==
    HistoryHits(hist, id) # {}

ExecutorAllowed_Found(pend, hist, id) ==
    LookupFound(pend, hist, id)

\* lines 68-80: both `not approved` checks must pass
ExecutorAllowed(pend, hist, id) ==
    /\ is_approved(pend, hist, id)
    /\ LookupFound(pend, hist, id)
    /\ Lookup(pend, hist, id).status = APPROVED

Outcome(raised, call, ret) == [raised |-> raised, call |-> call, ret |-> ret]

NoCall == [op |-> None]

\* the call on the ticket system: it returns (a ticket key, or True) or raises JIRAError
JiraCall(op, id, args, jira_ok) ==
    Outcome(IF jira_ok THEN None ELSE "JIRAError",
            [op |-> op, approval_id |-> id, args |-> args],
            IF ~jira_ok THEN None ELSE IF op = "create_ticket" THEN "PROJ-1" ELSE "True")

CreateArgs(preview) ==
    [project_key |-> preview.project,
     summary |-> preview.summary,
     description |-> preview.description,
     issue_type |-> GetOr(preview, "issue_type", "Task"),
     assignee |-> IF Get(preview, "assignee") # "Unassigned"
                  THEN Get(preview, "assignee") ELSE None,
     priority |-> Get(preview, "priority"),
     labels |-> Get(preview, "labels"),
     custom_fields |-> Get(preview, "custom_fields")]

UpdateArgs(preview) ==
    [ticket_key |-> preview.ticket_key,
     summary |-> Get(preview, "new_summary"),
     description |-> Get(preview, "new_description"),
     assignee |-> Get(preview, "new_assignee"),
     status |-> Get(preview, "new_status"),
     priority |-> Get(preview, "new_priority"),
     labels |-> Get(preview, "new_labels"),
     custom_fields |-> Get(preview, "custom_fields")]

TransitionArgs(preview) ==
    [ticket_key |-> preview.ticket_key,
     target_status |-> preview.target_status,
     comment |-> Get(preview, "comment")]

AssignArgs(preview) ==
    [ticket_key |-> preview.ticket_key,
     assignee |-> preview.new_assignee]

CommentArgs(preview) ==
    [ticket_key |-> preview.ticket_key,
     comment_body |-> preview.comment,
     visibility |-> Get(preview, "visibility")]

\* preview["key"] raises KeyError when the stored preview has no such key
HasKeys(preview, keys) == keys \subseteq DOMAIN preview

\* the keyword arguments each executor builds from the stored preview
ExecutorArgs(op, preview) ==
    CASE op = "create_ticket" -> CreateArgs(preview)
      [] op = "update_ticket" -> UpdateArgs(preview)
      [] op = "transition_ticket" -> TransitionArgs(preview)
      [] op = "assign_ticket" -> AssignArgs(preview)
      [] op = "add_comment" -> CommentArgs(preview)

Executor(pend, hist, id, jira_ok, op, keys) ==
    IF ~ExecutorAllowed(pend, hist, id)
    THEN Outcome("ValueError", NoCall, None)
    ELSE LET preview == Lookup(pend, hist, id).preview
         IN  IF ~HasKeys(preview, keys)
             THEN Outcome("KeyError", NoCall, None)
             ELSE JiraCall(op, id, ExecutorArgs(op, preview), jira_ok)

execute_create_ticket(pend, hist, id, jira_ok) ==
    Executor(pend, hist, id, jira_ok, "create_ticket",
             {"project", "summary", "description"})

execute_update_ticket(pend, hist, id, jira_ok) ==
    Executor(pend, hist, id, jira_ok, "update_ticket", {"ticket_key"})

execute_transition_ticket(pend, hist, id, jira_ok) ==
    Executor(pend, hist, id, jira_ok, "transition_ticket",
             {"ticket_key", "target_status"})

execute_assign_ticket(pend, hist, id, jira_ok) ==
    Executor(pend, hist, id, jira_ok, "assign_ticket",
             {"ticket_key", "new_assignee"})

execute_add_comment(pend, hist, id, jira_ok) ==
    Executor(pend, hist, id, jira_ok, "add_comment",
             {"ticket_key", "comment"})

\* ApprovalManager.execute_approved_action (approval_manager.py lines 213-292): the first
\* history entry with the id, whatever its status; exceptions of the ticket system are
\* turned into the returned text
ManagerArgs(approval) ==
    LET op == approval.operation_type
        preview == approval.preview
    IN  CASE op = "add_comment" ->
                [ticket_key |-> approval.ticket_key,
                 comment_body |-> Get(preview, "comment"),
                 visibility |-> None]
          [] op = "transition_ticket" ->
                [ticket_key |-> approval.ticket_key,
                 target_status |-> Get(preview, "target_status"),
                 comment |-> None]
          [] op = "assign_ticket" ->
                [ticket_key |-> approval.ticket_key, assignee |-> Get(preview, "assignee")]
          [] op = "update_summary" ->
                [ticket_key |-> approval.ticket_key, summary |-> Get(preview, "summary"),
                 description |-> None, assignee |-> None, status |-> None,
                 priority |-> None, labels |-> None, custom_fields |-> None]
          [] op = "create_ticket" ->
                [project_key |-> Get(preview, "project_key"),
                 summary |-> Get(preview, "summary"),
                 description |-> Get(preview, "description"),
                 issue_type |-> "Task", assignee |-> None, priority |-> None,
                 labels |-> None, custom_fields |-> None]

\* the function of tools/jira_operations.py that each branch calls
ManagerOperation(op) == IF op = "update_summary" THEN "update_ticket" ELSE op

ManagerText(approval, out) ==
    LET op == approval.operation_type
        key == approval.ticket_key
    IN  CASE op = "add_comment" -> "Comment added to " \o key
          [] op = "transition_ticket" ->
                "Ticket " \o key \o " transitioned to "
                    \o Get(approval.preview, "target_status")
          [] op = "assign_ticket" ->
                "Ticket " \o key \o " assigned to " \o Get(approval.preview, "assignee")
          [] op = "update_summary" -> "Summary updated for " \o key
          [] op = "create_ticket" -> "Ticket created: " \o out.ret

execute_approved_action(pend, hist, id, jira_ok) ==
    IF HistoryHits(hist, id) = {}
    THEN Outcome(None, NoCall, "Error: No such approved request.")
    ELSE LET approval == hist[FirstHistoryIndex(hist, id)]
             op == approval.operation_type
         IN  IF op \notin {"add_comment", "transition_ticket", "assign_ticket",
                           "update_summary", "create_ticket"}
             THEN Outcome(None, NoCall, "Unknown operation type: " \o op)
             ELSE LET out == JiraCall(ManagerOperation(op), id, ManagerArgs(approval),
                                      jira_ok)
                  IN  Outcome(None, out.call,
                              IF out.raised = None THEN ManagerText(approval, out)
                              ELSE "Error executing action: " \o out.raised)

CallExecutor(fn, pend, hist, id, jira_ok) ==
    CASE fn = "execute_create_ticket" -> execute_create_ticket(pend, hist, id, jira_ok)
      [] fn = "execute_update_ticket" -> execute_update_ticket(pend, hist, id, jira_ok)
      [] fn = "execute_transition_ticket" -> execute_transition_ticket(pend, hist, id, jira_ok)
      [] fn = "execute_assign_ticket" -> execute_assign_ticket(pend, hist, id, jira_ok)
      [] fn = "execute_add_comment" -> execute_add_comment(pend, hist, id, jira_ok)

(***************************************************************************)
(* Text: Python str and re operations on character strings.                *)
(***************************************************************************)
Char(s, i) == SubSeq(s, i, i)

UpperChars == "ABCDEFGHIJKLMNOPQRSTUVWXYZ"
LowerChars == "abcdefghijklmnopqrstuvwxyz"
DigitChars == "0123456789"

HasChar(class, c) == \E i \in 1..Len(class) : Char(class, i) = c

IndexIn(class, c) == CHOOSE i \in 1..Len(class) : Char(class, i) = c

LowerChar(c) ==
    IF HasChar(UpperChars, c) THEN Char(LowerChars, IndexIn(UpperChars, c)) ELSE c

UpperChar(c) ==
    IF HasChar(LowerChars, c) THEN Char(UpperChars, IndexIn(LowerChars, c)) ELSE c

RECURSIVE lower(_)
\* str.lower()
lower(s) == IF Len(s) = 0 THEN "" ELSE LowerChar(Char(s, 1)) \o lower(SubSeq(s, 2, Len(s)))

RECURSIVE upper(_)
\* str.upper()
upper(s) == IF Len(s) = 0 THEN "" ELSE UpperChar(Char(s, 1)) \o upper(SubSeq(s, 2, Len(s)))

StartsAt(s, i, sub) ==
    /\ i >= 1
    /\ i + Len(sub) - 1 <= Len(s)
    /\ SubSeq(s, i, i + Len(sub) - 1) = sub

\* `sub in s`
Contains(s, sub) == \E i \in 1..(Len(s) + 1) : StartsAt(s, i, sub)

Least(S) == CHOOSE i \in S : \A j \in S : i <= j

Greatest(S) == CHOOSE i \in S : \A j \in S : i >= j

IsSpace(c) == c = " "

\* str.strip()
strip(s) ==
    LET solid == {i \in 1..Len(s) : ~IsSpace(Char(s, i))}
    IN  IF solid = {} THEN "" ELSE SubSeq(s, Least(solid), Greatest(solid))

\* str.split(): the maximal runs of non-space characters, in order
split(s) ==
    LET starts == {i \in 1..Len(s) :
                      ~IsSpace(Char(s, i)) /\ (i = 1 \/ IsSpace(Char(s, i - 1)))}
        EndOf(i) == Least({j \in i..Len(s) : j = Len(s) \/ IsSpace(Char(s, j + 1))})
        Nth(k) == CHOOSE i \in starts : Cardinality({j \in starts : j <= i}) = k
    IN  [k \in 1..Cardinality(starts) |-> SubSeq(s, Nth(k), EndOf(Nth(k)))]

\* " ".join(parts[from:])
RECURSIVE JoinFrom(_, _)
JoinFrom(parts, from) ==
    IF from > Len(parts) THEN ""
    ELSE IF from = Len(parts) THEN parts[from]
    ELSE parts[from] \o " " \o JoinFrom(parts, from + 1)

\* character classes of the patterns; `ci` is re.I
IsLetter(c, ci) == HasChar(UpperChars, c) \/ (ci /\ HasChar(LowerChars, c))

IsDigit(c) == HasChar(DigitChars, c)

IsKeyChar(c, ci) == IsLetter(c, ci) \/ IsDigit(c)

\* \w or \s
IsWordOrSpace(c) == IsLetter(c, TRUE) \/ IsDigit(c) \/ c = "_" \/ IsSpace(c)

\* end of the maximal run of characters of a class that starts at i (i - 1 when empty)
KeyRunEnd(s, i, ci) ==
    Least({j \in (i - 1)..Len(s) : j = Len(s) \/ ~IsKeyChar(Char(s, j + 1), ci)})

DigitRunEnd(s, i) ==
    Least({j \in (i - 1)..Len(s) : j = Len(s) \/ ~IsDigit(Char(s, j + 1))})

WordRunEnd(s, i) ==
    Least({j \in (i - 1)..Len(s) : j = Len(s) \/ ~IsWordOrSpace(Char(s, j + 1))})

\* [A-Z][A-Z0-9]+-\d+ matched at position i: the end of the match, 0 when none
TicketKeyEnd(s, i, ci) ==
    IF i > Len(s) \/ ~IsLetter(Char(s, i), ci) THEN 0
    ELSE LET a == KeyRunEnd(s, i + 1, ci)
         IN  IF a < i + 1 \/ a + 1 > Len(s) \/ Char(s, a + 1) # "-" THEN 0
             ELSE LET d == DigitRunEnd(s, a + 2)
                  IN  IF d < a + 2 THEN 0 ELSE d

\* re.search(r"([A-Z][A-Z0-9]+-\d+)", s, re.I): group 1, None when no match
SearchTicketKey(s, ci) ==
    LET hits == {i \in 1..Len(s) : TicketKeyEnd(s, i, ci) > 0}
    IN  IF hits = {} THEN None
        ELSE SubSeq(s, Least(hits), TicketKeyEnd(s, Least(hits), ci))

NoMatch == [matched |-> FALSE]

\* re.search(r"<lead>([A-Z][A-Z0-9]+-\d+) to ([\w\s]+)", s): the groups, or NoMatch
SearchTransition(s, lead) ==
    LET Ok(i) == /\ StartsAt(s, i, lead)
                 /\ TicketKeyEnd(s, i + Len(lead), FALSE) > 0
                 /\ StartsAt(s, TicketKeyEnd(s, i + Len(lead), FALSE) + 1, " to ")
                 /\ WordRunEnd(s, TicketKeyEnd(s, i + Len(lead), FALSE) + 5)
                        >= TicketKeyEnd(s, i + Len(lead), FALSE) + 5
        hits == {i \in 1..Len(s) : Ok(i)}
    IN  IF hits = {} THEN NoMatch
        ELSE LET i == Least(hits)
                 k == TicketKeyEnd(s, i + Len(lead), FALSE)
             IN  [matched |-> TRUE,
                  key |-> SubSeq(s, i + Len(lead), k),
                  status |-> SubSeq(s, k + 5, WordRunEnd(s, k + 5))]

\* re.search(r"(?:w1|w2|...) ([\w\s]+)", s): group 1, None when no match
SearchAfterWord(s, words) ==
    LET Ok(i, w) == /\ StartsAt(s, i, w \o " ")
                    /\ WordRunEnd(s, i + Len(w) + 1) >= i + Len(w) + 1
        hits == {i \in 1..Len(s) : \E k \in DOMAIN words : Ok(i, words[k])}
    IN  IF hits = {} THEN None
        ELSE LET i == Least(hits)
                 w == words[Least({k \in DOMAIN words : Ok(i, words[k])})]
             IN  SubSeq(s, i + Len(w) + 1, WordRunEnd(s, i + Len(w) + 1))

\* s.split(sep)[-1]: the text after the last occurrence of sep
AfterLast(s, sep) ==
    LET hits == {i \in 1..Len(s) : StartsAt(s, i, sep)}
    IN  IF hits = {} THEN s ELSE SubSeq(s, Greatest(hits) + Len(sep), Len(s))

IndexAfterWord_NeverFound(parts, word) == 0

\* parts[i + 1] for the first i with parts[i] == word and i + 1 < len(parts), else None
IndexAfterWord(parts, word) ==
    LET hits == {i \in 1..(Len(parts) - 1) : parts[i] = word}
    IN  IF hits = {} THEN 0 ELSE Least(hits) + 1

(***************************************************************************)
(* The LangGraph workflow (graphs/jira_agent_graph.py).  A node maps the   *)
(* graph state to                                                          *)
(*   raised:  None, or the exception that leaves the node;                 *)
(*   upd:     the keys the node returns (merged into the graph state);     *)
(*   texts:   the AI messages the node adds;                               *)
(*   pending, history: the registry after the node.                        *)
(* `env` is the environment of the turn: the ticket system ("ok"; "404":   *)
(* it answers, but refuses every call on a ticket; "down": no call         *)
(* succeeds) and the LLM ("ok", "down").                                   *)
(***************************************************************************)
Envs == {[jira |-> "ok", llm |-> "ok"],
         [jira |-> "down", llm |-> "ok"],
         [jira |-> "404", llm |-> "ok"],
         [jira |-> "ok", llm |-> "down"]}

\* jira.statuses(), lowercased by fetch_statuses
JiraStatuses == <<"in progress", "done">>

IdleState == [greeted |-> FALSE,
              status_filter |-> None,
              ticket_to_summarize |-> None,
              pending_approval_id |-> None,
              operation_type |-> None]

\* keys of AgentState that the front ends do not carry between turns
ExtraKeys == [target_ticket_key |-> None,
              target_status |-> None,
              assignee |-> None,
              comment_body |-> None]

\* {**a, **b}
Merge(a, b) ==
    [k \in DOMAIN a \cup DOMAIN b |-> IF k \in DOMAIN b THEN b[k] ELSE a[k]]

NodeResult(raised, upd, texts, pend, hist) ==
    [raised |-> raised, upd |-> upd, texts |-> texts, echo |-> FALSE,
     pending |-> pend, history |-> hist]

\* `return state`: every key is written back, and the messages channel (operator.add)
\* receives once more the messages it already holds
ReturnState(state, pend, hist) ==
    [raised |-> None, upd |-> state, texts |-> <<>>, echo |-> TRUE,
     pending |-> pend, history |-> hist]

Cleared_KeepsApproval(state) ==
    [greeted |-> state.greeted,
     status_filter |-> None,
     ticket_to_summarize |-> None,
     pending_approval_id |-> state.pending_approval_id,
     operation_type |-> state.operation_type]

\* the keys every branch of agent_node returns
Cleared(state) ==
    [greeted |-> state.greeted,
     status_filter |-> None,
     ticket_to_summarize |-> None,
     pending_approval_id |-> None,
     operation_type |-> None]

TransitionLeads == <<"update ticket status ", "change status of ", "transition ticket ",
                     "move ticket ", "set status of ">>

\* lines 153-167: the first of the five patterns that matches
FirstTransitionMatch(last_msg) ==
    LET hits == {k \in DOMAIN TransitionLeads :
                    SearchTransition(last_msg, TransitionLeads[k]).matched}
    IN  IF hits = {} THEN NoMatch
        ELSE SearchTransition(last_msg, TransitionLeads[Least(hits)])

\* What agent_node reads off the text of the message (lines 60-63, 75, 81-87, 112-121,
\* 140-156, 170-173, 187-241, 257-259, 275-280, 297):
\*   ka, kr: index in parts of the token after "approve" / "reject", 0 when none
MatchFacts(content, last_msg, parts, key, pat, after_to_resume, after_to) ==
    LET has_approve == Contains(last_msg, "approve")
        has_reject == Contains(last_msg, "reject")
        ka == IF has_approve THEN IndexAfterWord(parts, "approve") ELSE 0
        kr == IF has_reject THEN IndexAfterWord(parts, "reject") ELSE 0
        dashed == {i \in DOMAIN parts : Contains(parts[i], "-")}
        stat == {k \in DOMAIN JiraStatuses : Contains(last_msg, JiraStatuses[k])}
    IN  [blank |-> strip(content) = "",
         parts_bound |-> has_approve \/ has_reject,
         approve_id |-> IF ka > 0 THEN parts[ka] ELSE None,
         reject_id |-> IF kr > 0 THEN parts[kr] ELSE None,
         reason |-> IF kr > 0 THEN JoinFrom(parts, kr + 1) ELSE "",
         ticket_key |-> IF key = None THEN None ELSE upper(key),
         pat_matched |-> pat.matched,
         pat_key |-> IF pat.matched THEN upper(pat.key) ELSE None,
         pat_status |-> IF pat.matched THEN strip(pat.status) ELSE None,
         to_or_resume |-> IF after_to_resume = None THEN None ELSE strip(after_to_resume),
         to |-> IF after_to = None THEN None ELSE strip(after_to),
         last_part |-> IF Len(parts) > 2 THEN parts[Len(parts)] ELSE None,
         comment_body |-> IF Contains(last_msg, "add comment")
                          THEN strip(AfterLast(last_msg, "add comment")) ELSE "",
         dashed_part |-> IF dashed = {} THEN None ELSE parts[Least(dashed)],
         status |-> IF stat = {} THEN None ELSE JiraStatuses[Least(stat)],
         says |-> {w \in {"change status", "resume development", "create ticket",
                          "new ticket", "update ticket", "modify ticket",
                          "transition ticket", "move ticket", "assign ticket",
                          "reassign ticket", "add comment", "comment on ticket",
                          "summarize ticket", "show me my tickets"} :
                      Contains(last_msg, w)}]

SearchFacts(content, last_msg) ==
    MatchFacts(content, last_msg, split(last_msg),
               SearchTicketKey(last_msg, TRUE),
               FirstTransitionMatch(last_msg),
               SearchAfterWord(last_msg, <<"to", "resume">>),
               SearchAfterWord(last_msg, <<"to">>))

TextFacts(content) == SearchFacts(content, lower(content))

\* lines 254-322: summarize, status filter, ticket list, LLM fallback
agent_node_reads(state, t, pend, hist, env) ==
    IF "summarize ticket" \in t.says /\ t.dashed_part # None
    THEN NodeResult(None,
             [Cleared(state) EXCEPT !.ticket_to_summarize = t.dashed_part],
             <<"Summarizing ticket " \o t.dashed_part \o "...">>, pend, hist)
    ELSE IF env.jira = "down"
    THEN NodeResult("JIRAError", <<>>, <<>>, pend, hist)
    ELSE IF t.status # None
    THEN NodeResult(None,
             [Cleared(state) EXCEPT !.greeted = TRUE, !.status_filter = t.status],
             <<"Fetching tickets with status '" \o t.status \o "'...">>, pend, hist)
    ELSE IF "show me my tickets" \in t.says
    THEN NodeResult(None, [Cleared(state) EXCEPT !.greeted = TRUE],
             <<"Hi! Fetching your tickets...">>, pend, hist)
    ELSE IF env.llm # "ok"
    THEN NodeResult("LLMError", <<>>, <<>>, pend, hist)
    ELSE NodeResult(None, Cleared(state), <<"LLM reply">>, pend, hist)

WriteIntent(state, op, extra, text, pend, hist) ==
    NodeResult(None, Merge([Cleared(state) EXCEPT !.operation_type = op], extra),
               <<text>>, pend, hist)

\* lines 140-251: write operation detection
agent_node_writes(state, t, pend, hist, env) ==
    IF t.pat_matched
    THEN WriteIntent(state, "transition_ticket",
             [target_ticket_key |-> t.pat_key, target_status |-> t.pat_status],
             "To transition ticket " \o t.pat_key \o " to '" \o t.pat_status
                 \o "', I will show you a preview for approval.", pend, hist)
    ELSE IF /\ {"change status", "resume development"} \cap t.says # {}
            /\ t.ticket_key # None
            /\ t.to_or_resume \notin {None, ""}
    THEN WriteIntent(state, "transition_ticket",
             [target_ticket_key |-> t.ticket_key, target_status |-> t.to_or_resume],
             "To transition ticket " \o t.ticket_key \o " to '" \o t.to_or_resume
                 \o "', I will show you a preview for approval.", pend, hist)
    ELSE IF {"create ticket", "new ticket"} \cap t.says # {}
    THEN WriteIntent(state, "create_ticket", <<>>,
             "To create a ticket, please provide: project key, summary, and description. I will show you a preview for approval.",
             pend, hist)
    ELSE IF {"update ticket", "modify ticket"} \cap t.says # {} /\ t.ticket_key # None
    THEN WriteIntent(state, "update_ticket", [target_ticket_key |-> t.ticket_key],
             "To update ticket " \o t.ticket_key
                 \o ", please specify what to change. I will show you a preview for approval.",
             pend, hist)
    ELSE IF /\ {"transition ticket", "move ticket", "change status"} \cap t.says # {}
            /\ t.ticket_key # None
    THEN WriteIntent(state, "transition_ticket",
             [target_ticket_key |-> t.ticket_key, target_status |-> t.to],
             "To transition ticket " \o t.ticket_key
                 \o ", please specify the target status. I will show you a preview for approval.",
             pend, hist)
    ELSE IF {"assign ticket", "reassign ticket"} \cap t.says # {} /\ t.ticket_key # None
    THEN IF ~t.parts_bound
         THEN NodeResult("UnboundLocalError", <<>>, <<>>, pend, hist)
         ELSE WriteIntent(state, "assign_ticket",
                  [target_ticket_key |-> t.ticket_key, assignee |-> t.last_part],
                  "To assign ticket " \o t.ticket_key
                      \o ", please specify the assignee. I will show you a preview for approval.",
                  pend, hist)
    ELSE IF {"add comment", "comment on ticket"} \cap t.says # {} /\ t.ticket_key # None
    THEN WriteIntent(state, "add_comment",
             [target_ticket_key |-> t.ticket_key, comment_body |-> t.comment_body],
             "To add a comment to ticket " \o t.ticket_key
                 \o ", please provide the comment text. I will show you a preview for approval.",
             pend, hist)
    ELSE agent_node_reads(state, t, pend, hist, env)

GrantedOperation_Unset(state, approval) == None

GrantedOperation_FromState(state, approval) == state.operation_type

\* line 97: the operation type the approve branch hands to execute_node
GrantedOperation(state, approval) == approval.operation_type

\* lines 56-326
agent_node(state, t, pend, hist, env) ==
    IF t.blank
    THEN NodeResult(None, Cleared(state),
             <<"I need a human message to proceed. Please provide instructions.">>,
             pend, hist)
    ELSE IF t.approve_id # None
    THEN LET r == approve(pend, hist, t.approve_id, "user")
             approval == Lookup(r.pending, r.history, t.approve_id)
         IN  IF r.ret
             THEN NodeResult(None,
                      [Cleared(state) EXCEPT !.pending_approval_id = t.approve_id,
                                             !.operation_type =
                                                 GrantedOperation(state, approval)],
                      <<"Approval granted for " \o approval.operation_type
                            \o ". Executing operation...">>,
                      r.pending, r.history)
             ELSE NodeResult(None, Cleared(state),
                      <<"Approval request " \o t.approve_id
                            \o " not found or already processed.">>,
                      r.pending, r.history)
    ELSE IF t.reject_id # None
    THEN LET r == reject(pend, hist, t.reject_id, t.reason, "user")
         IN  NodeResult(None, Cleared(state),
                 <<"Operation rejected. Approval request " \o t.reject_id
                       \o " has been cancelled.">>,
                 r.pending, r.history)
    ELSE agent_node_writes(state, t, pend, hist, env)

\* get_ticket_details inside a preview builder: any failure degrades to {}
FetchCurrent(env) == IF env.jira = "ok" THEN SomeDetails ELSE NoDetails

\* lines 376-453
approval_node(state, pend, hist, env) ==
    LET op == state.operation_type
        r == CASE op = "create_ticket" ->
                    create_ticket_with_approval(pend, hist, "PROJ", "Example Ticket",
                        "Example description", "Task", None, None)
               [] op = "update_ticket" ->
                    update_ticket_with_approval(pend, hist, state.target_ticket_key,
                        None, None, None, None, None, FetchCurrent(env))
               [] op = "transition_ticket" ->
                    transition_ticket_with_approval(pend, hist, state.target_ticket_key,
                        state.target_status, None, FetchCurrent(env))
               [] op = "assign_ticket" ->
                    assign_ticket_with_approval(pend, hist, state.target_ticket_key,
                        state.assignee, FetchCurrent(env))
               [] op = "add_comment" ->
                    add_comment_with_approval(pend, hist, state.target_ticket_key,
                        state.comment_body, None)
    IN  IF op \notin OperationTypes
        THEN ReturnState(state, pend, hist)
        ELSE NodeResult(None,
                 [greeted |-> state.greeted,
                  status_filter |-> None,
                  ticket_to_summarize |-> None,
                  pending_approval_id |-> r.ret.request_id,
                  operation_type |-> op],
                 <<"APPROVAL REQUIRED - " \o op \o " Request ID: " \o r.ret.request_id>>,
                 r.pending, r.history)

ExecutorOf(op) ==
    CASE op = "create_ticket" -> "execute_create_ticket"
      [] op = "update_ticket" -> "execute_update_ticket"
      [] op = "transition_ticket" -> "execute_transition_ticket"
      [] op = "assign_ticket" -> "execute_assign_ticket"
      [] op = "add_comment" -> "execute_add_comment"
      [] OTHER -> None

SuccessText(op, out) ==
    CASE op = "create_ticket" -> "Ticket created successfully: " \o out.ret
      [] op = "update_ticket" -> "Ticket updated successfully."
      [] op = "transition_ticket" -> "Ticket transitioned successfully."
      [] op = "assign_ticket" -> "Ticket assigned successfully."
      [] op = "add_comment" -> "Comment added successfully."

execute_node_propagates(state, pend, hist, env) ==
    LET approval_id == state.pending_approval_id
        op == state.operation_type
        out == CallExecutor(ExecutorOf(op), pend, hist, approval_id, env.jira = "ok")
    IN  IF approval_id \in {None, ""} \/ op \in {None, ""}
        THEN [node |-> NodeResult(None, Cleared(state),
                           <<"No pending operation to execute.">>, pend, hist),
              call |-> NoCall]
        ELSE IF ExecutorOf(op) = None
        THEN [node |-> ReturnState(state, pend, hist), call |-> NoCall]
        ELSE IF out.raised # None
        THEN [node |-> NodeResult(out.raised, <<>>, <<>>, pend, hist), call |-> out.call]
        ELSE [node |-> NodeResult(None, Cleared(state), <<SuccessText(op, out)>>, pend, hist),
              call |-> out.call]

execute_node_keeps_on_failure(state, pend, hist, env) ==
    LET approval_id == state.pending_approval_id
        op == state.operation_type
        out == CallExecutor(ExecutorOf(op), pend, hist, approval_id, env.jira = "ok")
    IN  IF approval_id \in {None, ""} \/ op \in {None, ""}
        THEN [node |-> NodeResult(None, Cleared(state),
                           <<"No pending operation to execute.">>, pend, hist),
              call |-> NoCall]
        ELSE IF ExecutorOf(op) = None
        THEN [node |-> ReturnState(state, pend, hist), call |-> NoCall]
        ELSE IF out.raised # None
        THEN [node |-> ReturnState(state, pend, hist), call |-> out.call]
        ELSE [node |-> NodeResult(None, Cleared(state), <<SuccessText(op, out)>>, pend, hist),
              call |-> out.call]

\* lines 456-540; `call` is the mutating call made on the ticket system, if any
execute_node(state, pend, hist, env) ==
    LET approval_id == state.pending_approval_id
        op == state.operation_type
        out == CallExecutor(ExecutorOf(op), pend, hist, approval_id, env.jira = "ok")
    IN  IF approval_id \in {None, ""} \/ op \in {None, ""}
        THEN [node |-> NodeResult(None, Cleared(state),
                           <<"No pending operation to execute.">>, pend, hist),
              call |-> NoCall]
        ELSE IF ExecutorOf(op) = None
        THEN [node |-> ReturnState(state, pend, hist), call |-> NoCall]
        ELSE IF out.raised # None
        THEN [node |-> NodeResult(None, Cleared(state),
                           <<"Error executing operation: " \o out.raised>>, pend, hist),
              call |-> out.call]
        ELSE [node |-> NodeResult(None, Cleared(state), <<SuccessText(op, out)>>, pend, hist),
              call |-> out.call]

tool_node_fetches_nothing(state, pend, hist, env) == ReturnState(state, pend, hist)

\* lines 329-349
tool_node(state, pend, hist, env) ==
    IF state.greeted
    THEN IF env.jira = "down"
         THEN NodeResult("JIRAError", <<>>, <<>>, pend, hist)
         ELSE NodeResult(None, Cleared([state EXCEPT !.greeted = FALSE]),
                  <<"tickets listing">>, pend, hist)
    ELSE ReturnState(state, pend, hist)

\* lines 352-373; fetch_and_summarize_ticket answers a 404 with a message
summarize_ticket_node(state, pend, hist, env) ==
    IF state.ticket_to_summarize \notin {None, ""}
    THEN IF env.jira = "down" THEN NodeResult("JIRAError", <<>>, <<>>, pend, hist)
         ELSE IF env.jira = "404"
         THEN NodeResult(None, Cleared(state),
                  <<"Ticket '" \o state.ticket_to_summarize
                        \o "' does not exist or is not accessible.">>, pend, hist)
         ELSE IF env.llm # "ok" THEN NodeResult("LLMError", <<>>, <<>>, pend, hist)
         ELSE NodeResult(None, Cleared(state), <<"ticket summary">>, pend, hist)
    ELSE ReturnState(state, pend, hist)

route_after_agent_never_execute(state, pend, hist) ==
    LET approval_id == state.pending_approval_id
        op_type == state.operation_type
    IN  IF op_type \notin {None, ""} /\ approval_id \in {None, ""} THEN "approval"
        ELSE IF approval_id \notin {None, ""} /\ op_type \notin {None, ""} THEN "END"
        ELSE IF state.greeted THEN "tools"
        ELSE IF state.ticket_to_summarize \notin {None, ""} THEN "summarizer"
        ELSE "END"

\* lines 554-581
route_after_agent(state, pend, hist) ==
    LET approval_id == state.pending_approval_id
        op_type == state.operation_type
    IN  IF op_type \notin {None, ""} /\ approval_id \in {None, ""} THEN "approval"
        ELSE IF approval_id \notin {None, ""} /\ op_type \notin {None, ""}
        THEN IF is_approved(pend, hist, approval_id) THEN "execute" ELSE "END"
        ELSE IF state.greeted THEN "tools"
        ELSE IF state.ticket_to_summarize \notin {None, ""} THEN "summarizer"
        ELSE "END"

\* app.invoke(input_state): agent, then the node the router names
\*   raised: None or the exception that leaves invoke; state: the resulting graph state;
\*   texts: the AI messages of the result; call: the mutating ticket-system call made
\* the node an edge out of agent leads to, run on state s1
RoutedNode(route, s1, pend, hist, env) ==
    CASE route = "approval" -> [node |-> approval_node(s1, pend, hist, env), call |-> NoCall]
      [] route = "execute" -> execute_node(s1, pend, hist, env)
      [] route = "tools" -> [node |-> tool_node(s1, pend, hist, env), call |-> NoCall]
      [] route = "summarizer" ->
            [node |-> summarize_ticket_node(s1, pend, hist, env), call |-> NoCall]
      [] OTHER -> [node |-> NodeResult(None, <<>>, <<>>, pend, hist), call |-> NoCall]

\* the result of the run: a is what agent_node returned, s1 the state after it, b what
\* the routed node returned
GraphResult(input_state, a, s1, b) ==
    IF a.raised # None
    THEN [raised |-> a.raised, state |-> input_state, texts |-> <<>>,
          pending |-> a.pending, history |-> a.history, call |-> NoCall]
    ELSE [raised |-> b.node.raised,
          state |-> Merge(s1, b.node.upd),
          texts |-> a.texts \o (IF b.node.echo THEN a.texts ELSE b.node.texts),
          pending |-> b.node.pending,
          history |-> b.node.history,
          call |-> b.call]

\* the one element of a one-element set
Only(S) == CHOOSE x \in S : TRUE

AfterAgent(input_state, a, s1, env) ==
    Only({GraphResult(input_state, a, s1, b) :
            b \in {RoutedNode(route_after_agent(s1, a.pending, a.history), s1,
                              a.pending, a.history, env)}})

AgentReturned(input_state, a, env) ==
    Only({AfterAgent(input_state, a, s1, env) : s1 \in {Merge(input_state, a.upd)}})

invoke(input_state, t, pend, hist, env) ==
    Only({AgentReturned(input_state, a, env) :
            a \in {agent_node(input_state, t, pend, hist, env)}})

(***************************************************************************)
(* Inputs.                                                                 *)
(***************************************************************************)
ApprovalCommands ==
    UNION {{"approve " \o id, "reject " \o id \o " wrong ticket"} : id \in RequestIds}

WriteCommands ==
    {"create ticket in ESD summary \"Fix login\" description \"Users cannot log in\"",
     "update ticket ESD-123 set summary \"New summary\"",
     "transition ticket ESD-123 to \"In Progress\"",
     "assign ticket ESD-123 to approver",
     "comment on ticket ESD-123 \"This is a comment\""}

ReadCommands ==
    {"show me my tickets",
     "show tickets with status In Progress",
     "summarize ticket ESD-123"}

FallbackCommands == {"hello"}

Commands == ApprovalCommands \cup WriteCommands \cup ReadCommands \cup FallbackCommands

\* commands as the help text of run_agent prints them, where they differ from the above
HelpCommands ==
    {"show my tickets",
     "assign ticket ESD-123 to \"john.doe\""}

\* write commands without their ticket key, or without project, summary and description
PartialCommands ==
    {"create ticket",
     "update ticket set summary \"New summary\"",
     "transition ticket to \"In Progress\"",
     "assign ticket to \"john.doe\"",
     "comment on ticket \"This is a comment\""}

\* approve / reject messages whose further words are capitalised, or hold the word
\* "approve", or match a write pattern
MixedApprovalCommands ==
    UNION {{"reject " \o id \o " Wrong Ticket",
            "reject " \o id \o " I do not approve this",
            "reject " \o id \o " create ticket instead",
            "approve " \o id \o " then create ticket in ESD"} : id \in RequestIds}

\* read commands in another letter case
CaseCommands == {"Show Tickets With Status IN PROGRESS", "SUMMARIZE TICKET ESD-123"}

\* comment commands whose comment holds the word "approve" or "reject", or "approved"
WordCommands ==
    {"comment on ticket ESD-123 \"I approve " \o id \o " as it is\"" : id \in RequestIds}
        \cup {"comment on ticket ESD-123 \"we reject 1 for now\"",
              "comment on ticket ESD-123 \"budget approved\""}

Texts ==
    Commands \cup HelpCommands \cup PartialCommands \cup MixedApprovalCommands
        \cup CaseCommands \cup WordCommands

\* the text of each message is read once
Facts == [content \in Texts |-> TextFacts(content)]

(***************************************************************************)
(* The front ends (web/app.py chat, main.py run_agent): one turn.          *)
(***************************************************************************)
\* the conversation state the front end keeps: five keys of the result
Kept(state) ==
    [greeted |-> state.greeted,
     status_filter |-> state.status_filter,
     ticket_to_summarize |-> state.ticket_to_summarize,
     pending_approval_id |-> state.pending_approval_id,
     operation_type |-> state.operation_type]

\* chat(): the turn of user u on message `content`
TurnResult(conv, r) ==
    [raised |-> r.raised,
     conv |-> IF r.raised # None THEN conv ELSE Kept(r.state),
     texts |-> r.texts,
     pending |-> r.pending,
     history |-> r.history,
     call |-> r.call]

handle(conv, content, pend, hist, env) ==
    Only({TurnResult(conv, r) :
            r \in {invoke(Merge(ExtraKeys, conv), Facts[content], pend, hist, env)}})

\* the ticket system's record of the mutating calls made on it
Record(calls, call) == IF call.op = None THEN calls ELSE calls (+) SetToBag({call})

Chat(u, content, env) ==
    \E r \in {handle(user_conversations[u], content, pending_approvals, approval_history, env)} :
        /\ Len(r.pending) + Len(r.history) <= MaxRequests
        /\ BagCardinality(Record(jira_calls, r.call)) <= MaxCalls
        /\ pending_approvals' = r.pending
        /\ approval_history' = r.history
        /\ user_conversations' = [user_conversations EXCEPT ![u] = r.conv]
        /\ jira_calls' = Record(jira_calls, r.call)
        /\ UNCHANGED threads

\* a caller of the registry or of a preview builder creates a request
RequestKinds == {"test", "create", "comment"}

NewRequest(pend, hist, kind) ==
    CASE kind = "test" ->
            create_approval_request(pend, hist, "test_operation", [test |-> "data"], None)
      [] kind = "create" ->
            create_ticket_with_approval(pend, hist, "ESD", "Fix login", "Users cannot log in",
                                        "Bug", "dave", "High")
      [] kind = "comment" ->
            add_comment_with_approval(pend, hist, "ESD-123", "a note", None)

Request(kind) ==
    \E r \in {NewRequest(pending_approvals, approval_history, kind)} :
        /\ Len(r.pending) + Len(r.history) <= MaxRequests
        /\ pending_approvals' = r.pending
        /\ approval_history' = r.history
        /\ UNCHANGED <<user_conversations, jira_calls, threads>>

\* approved_by: the default of approve / reject, or the front end's logged-in user
Approvers == {"user"} \cup Reviewers

\* POST /api/approvals/{request_id}/approve
approve_request(id, username) ==
    \E r \in {approve(pending_approvals, approval_history, id, username)} :
        /\ pending_approvals' = r.pending
        /\ approval_history' = r.history
        /\ UNCHANGED <<user_conversations, jira_calls, threads>>

\* POST /api/approvals/{request_id}/reject
reject_request(id, reason, username) ==
    \E r \in {reject(pending_approvals, approval_history, id, reason, username)} :
        /\ pending_approvals' = r.pending
        /\ approval_history' = r.history
        /\ UNCHANGED <<user_conversations, jira_calls, threads>>

\* a direct call of one of the five executor functions
Execute(fn, id, jira_ok) ==
    \E r \in {CallExecutor(fn, pending_approvals, approval_history, id, jira_ok)} :
        /\ BagCardinality(Record(jira_calls, r.call)) <= MaxCalls
        /\ jira_calls' = Record(jira_calls, r.call)
        /\ UNCHANGED <<pending_approvals, approval_history, user_conversations, threads>>

(***************************************************************************)
(* approve and reject run by concurrent callers, one statement at a time.  *)
(* The registry takes no lock.  A request is one object: a caller that has  *)
(* read it out of pending_approvals writes its fields wherever the object   *)
(* is held, in pending_approvals or already in approval_history.            *)
(***************************************************************************)
ThreadIds == {"t1", "t2"}

IdleThread == [pc |-> "idle", op |-> None, id |-> None, by |-> None,
               ret |-> None, raised |-> None]

\* a write to a field of the request object with this id
WriteField(s, id, field, value) ==
    [i \in DOMAIN s |-> IF s[i].request_id = id
                         THEN [s[i] EXCEPT ![field] = value] ELSE s[i]]

Finish(t, ret, raised) ==
    threads' = [threads EXCEPT ![t].pc = "done", ![t].ret = ret, ![t].raised = raised]

Goto(t, pc) == threads' = [threads EXCEPT ![t].pc = pc]

\* a caller enters approve(id, approved_by=by) or reject(id, reason="", rejected_by=by)
Begin(t, op, id, by) ==
    /\ threads[t].pc = "idle"
    /\ threads' = [threads EXCEPT ![t] = [IdleThread EXCEPT !.pc = "check", !.op = op,
                                                             !.id = id, !.by = by]]
    /\ UNCHANGED <<pending_approvals, approval_history, user_conversations, jira_calls>>

\* lines 143-146, 170-173: `if request_id not in self.pending_approvals: return False`
CheckPending(t) ==
    /\ threads[t].pc = "check"
    /\ IF InPending(pending_approvals, threads[t].id)
       THEN Goto(t, "read") ELSE Finish(t, "False", None)
    /\ UNCHANGED <<pending_approvals, approval_history, user_conversations, jira_calls>>

\* lines 147, 174: `approval = self.pending_approvals[request_id]`
ReadPending(t) ==
    /\ threads[t].pc = "read"
    /\ IF InPending(pending_approvals, threads[t].id)
       THEN Goto(t, "status") ELSE Finish(t, None, "KeyError")
    /\ UNCHANGED <<pending_approvals, approval_history, user_conversations, jira_calls>>

\* lines 148, 175: `approval.status = ...`
WriteStatus(t) ==
    /\ threads[t].pc = "status"
    /\ \E status \in {IF threads[t].op = "approve" THEN APPROVED ELSE REJECTED} :
          /\ pending_approvals' =
                 WriteField(pending_approvals, threads[t].id, "status", status)
          /\ approval_history' =
                 WriteField(approval_history, threads[t].id, "status", status)
    /\ Goto(t, IF threads[t].op = "approve" THEN "by" ELSE "reason")
    /\ UNCHANGED <<user_conversations, jira_calls>>

\* line 176: `approval.rejection_reason = reason`
WriteReason(t) ==
    /\ threads[t].pc = "reason"
    /\ pending_approvals' =
           WriteField(pending_approvals, threads[t].id, "rejection_reason", "")
    /\ approval_history' =
           WriteField(approval_history, threads[t].id, "rejection_reason", "")
    /\ Goto(t, "by")
    /\ UNCHANGED <<user_conversations, jira_calls>>

\* lines 149, 177: `approval.approved_by = ...`
WriteBy(t) ==
    /\ threads[t].pc = "by"
    /\ pending_approvals' =
           WriteField(pending_approvals, threads[t].id, "approved_by", threads[t].by)
    /\ approval_history' =
           WriteField(approval_history, threads[t].id, "approved_by", threads[t].by)
    /\ Goto(t, "append")
    /\ UNCHANGED <<user_conversations, jira_calls>>

\* lines 151, 179: `self.approval_history.append(approval)`
AppendHistory(t) ==
    /\ threads[t].pc = "append"
    /\ approval_history' =
           Append(approval_history,
                  Lookup(pending_approvals, approval_history, threads[t].id))
    /\ Goto(t, "delete")
    /\ UNCHANGED <<pending_approvals, user_conversations, jira_calls>>

\* lines 152-155, 180-183: `del self.pending_approvals[request_id]`, `return True`
DeletePending(t) ==
    /\ threads[t].pc = "delete"
    /\ IF InPending(pending_approvals, threads[t].id)
       THEN /\ pending_approvals' =
                  Remove(pending_approvals, PendingIndex(pending_approvals, threads[t].id))
            /\ Finish(t, "True", None)
       ELSE /\ UNCHANGED pending_approvals
            /\ Finish(t, None, "KeyError")
    /\ UNCHANGED <<approval_history, user_conversations, jira_calls>>

Init ==
    /\ pending_approvals = <<>>
    /\ approval_history = <<>>
    /\ user_conversations = [u \in Users |-> IdleState]
    /\ jira_calls = EmptyBag
    /\ threads = [t \in ThreadIds |-> IdleThread]

NextChat ==
    \/ \E u \in Users, content \in Commands, env \in Envs : Chat(u, content, env)
    \/ \E id \in RequestIds, u \in Reviewers : approve_request(id, u)
    \/ \E id \in RequestIds, u \in Reviewers : reject_request(id, "", u)

\* chat turns and the front end's approve / reject entry points
SpecChat == Init /\ [][NextChat]_vars

NextTexts ==
    \/ \E u \in Users, content \in Texts, env \in Envs : Chat(u, content, env)
    \/ \E id \in RequestIds, u \in Reviewers : approve_request(id, u)
    \/ \E id \in RequestIds, u \in Reviewers : reject_request(id, "", u)

\* the same, the users sending every kind of message
SpecTexts == Init /\ [][NextTexts]_vars

\* the messages of users who keep creating and approving requests
LiveTexts ==
    {"create ticket in ESD summary \"Fix login\" description \"Users cannot log in\"",
     "update ticket ESD-123 set summary \"New summary\"",
     "hello"} \cup {"approve " \o id : id \in RequestIds}

NextLive ==
    \/ \E u \in Users, content \in LiveTexts :
          Chat(u, content, [jira |-> "ok", llm |-> "ok"])
    \/ \E id \in RequestIds, u \in Reviewers : approve_request(id, u)

\* the ticket system and the LLM answer, and the users keep sending commands: as long
\* as some turn or approval would change something, one is taken
SpecLive == Init /\ [][NextLive]_vars /\ WF_vars(NextLive)

Next ==
    \/ \E u \in Users, content \in Commands, env \in Envs : Chat(u, content, env)
    \/ \E id \in RequestIds, u \in Reviewers : approve_request(id, u)
    \/ \E id \in RequestIds, u \in Reviewers : reject_request(id, "", u)
    \/ \E fn \in ExecutorNames, id \in RequestIds, ok \in BOOLEAN : Execute(fn, id, ok)

\* the same, and direct calls of the executor functions
Spec == Init /\ [][Next]_vars

\* a direct call of ApprovalManager.execute_approved_action
ExecuteApproved(id, jira_ok) ==
    \E r \in {execute_approved_action(pending_approvals, approval_history, id, jira_ok)} :
        /\ BagCardinality(Record(jira_calls, r.call)) <= MaxCalls
        /\ jira_calls' = Record(jira_calls, r.call)
        /\ UNCHANGED <<pending_approvals, approval_history, user_conversations, threads>>

NextRegistry ==
    \/ \E kind \in RequestKinds : Request(kind)
    \/ \E id \in RequestIds, by \in Approvers : approve_request(id, by)
    \/ \E id \in RequestIds, reason \in {"", "wrong ticket"}, by \in Approvers :
          reject_request(id, reason, by)

\* the registry alone: create, approve and reject calls in any order
SpecRegistry == Init /\ [][NextRegistry]_vars

NextManager ==
    \/ \E kind \in RequestKinds : Request(kind)
    \/ \E id \in RequestIds, by \in Approvers : approve_request(id, by)
    \/ \E id \in RequestIds, reason \in {"", "wrong ticket"}, by \in Approvers :
          reject_request(id, reason, by)
    \/ \E id \in RequestIds, ok \in BOOLEAN : ExecuteApproved(id, ok)

\* the registry, and its own execute_approved_action
SpecManager == Init /\ [][NextManager]_vars

NextThreads ==
    \/ \E kind \in RequestKinds : Request(kind)
    \/ \E t \in ThreadIds, op \in {"approve", "reject"}, id \in RequestIds :
          Begin(t, op, id, t)
    \/ \E t \in ThreadIds : CheckPending(t)
    \/ \E t \in ThreadIds : ReadPending(t)
    \/ \E t \in ThreadIds : WriteStatus(t)
    \/ \E t \in ThreadIds : WriteReason(t)
    \/ \E t \in ThreadIds : WriteBy(t)
    \/ \E t \in ThreadIds : AppendHistory(t)
    \/ \E t \in ThreadIds : DeletePending(t)

\* requests are created, and two callers run one approve or reject each, their
\* statements interleaving
SpecThreads == Init /\ [][NextThreads]_vars

(***************************************************************************)
(* Properties.                                                             *)
(***************************************************************************)
Calls == BagToSet(jira_calls)

\* how many times the ticket system was called for approval id
CallsFor(id) ==
    BagCardinality([c \in {c \in Calls : c.approval_id = id} |-> jira_calls[c]])

InHistory(hist, id, status) ==
    \E i \in DOMAIN hist : hist[i].request_id = id /\ hist[i].status = status

\* C1: every mutating call made on the ticket system, by a chat turn or by a direct
\* call of an executor, is for a request that is in history with status approved;
\* none is for a request that is pending, rejected or unknown.
C1_CallsOnlyForApproved ==
    \A c \in Calls :
        /\ InHistory(approval_history, c.approval_id, APPROVED)
        /\ ~InHistory(approval_history, c.approval_id, REJECTED)
        /\ ~InPending(pending_approvals, c.approval_id)

\* a call has been made for an approved request while another request stands rejected
\* and an executor called for that one raises
C1_Witness ==
    /\ \E c \in Calls : InHistory(approval_history, c.approval_id, APPROVED)
    /\ \E id \in RequestIds :
          /\ InHistory(approval_history, id, REJECTED)
          /\ CallsFor(id) = 0
          /\ \A fn \in ExecutorNames :
                CallExecutor(fn, pending_approvals, approval_history, id, TRUE).call = NoCall

\* the outcome of user u sending `content` in the current state
TurnOf(u, content, env) ==
    handle(user_conversations[u], content, pending_approvals, approval_history, env)

\* C2: over chat turns and front-end approve / reject calls, the ticket system is called
\* at most once for an approval id; a turn that makes the call ends with
\* pending_approval_id cleared; and 'approve <id>' for an id already executed makes
\* no call, in any conversation.
C2_AtMostOncePerApproval ==
    /\ \A id \in RequestIds : CallsFor(id) <= 1
    /\ \A u \in Users, content \in Commands, env \in Envs :
          \A r \in {TurnOf(u, content, env)} :
              /\ r.call # NoCall => r.conv.pending_approval_id = None
              /\ r.call # NoCall => CallsFor(r.call.approval_id) = 0

\* a request has been executed once, no conversation holds its id any more, and
\* 'approve <id>' is answered with "not found or already processed"
C2_Witness ==
    \E id \in RequestIds :
        /\ CallsFor(id) = 1
        /\ \A u \in Users : user_conversations[u].pending_approval_id = None
        /\ \A u \in Users, env \in Envs :
              \A r \in {TurnOf(u, "approve " \o id, env)} :
                  /\ r.call = NoCall
                  /\ r.texts = <<"Approval request " \o id
                                    \o " not found or already processed.">>

\* the payload fields of a stored request, under the parameter names of the external
\* operation of its type
StoredPayload(q) ==
    LET p == q.preview
    IN  CASE q.operation_type = "create_ticket" ->
                [project_key |-> p.project, summary |-> p.summary,
                 description |-> p.description, issue_type |-> p.issue_type,
                 assignee |-> p.assignee, priority |-> p.priority, labels |-> p.labels,
                 custom_fields |-> None]
          [] q.operation_type = "update_ticket" ->
                [ticket_key |-> p.ticket_key, summary |-> p.new_summary,
                 description |-> p.new_description, assignee |-> p.new_assignee,
                 status |-> p.new_status, priority |-> p.new_priority,
                 labels |-> p.new_labels, custom_fields |-> None]
          [] q.operation_type = "transition_ticket" ->
                [ticket_key |-> p.ticket_key, target_status |-> p.target_status,
                 comment |-> p.comment]
          [] q.operation_type = "assign_ticket" ->
                [ticket_key |-> p.ticket_key, assignee |-> p.new_assignee]
          [] q.operation_type = "add_comment" ->
                [ticket_key |-> p.ticket_key, comment_body |-> p.comment,
                 visibility |-> p.visibility]

\* the same, with the placeholder "Unassigned" of a create request read as no assignee
StoredPayloadUnassigned(q) ==
    IF q.operation_type = "create_ticket" /\ q.preview.assignee = "Unassigned"
    THEN [StoredPayload(q) EXCEPT !.assignee = None]
    ELSE StoredPayload(q)

Requests(pend, hist) == SeqRange(pend) \cup SeqRange(hist)

\* no turn changes the operation type, ticket or payload of a request that exists
PayloadKept ==
    \A u \in Users, content \in Commands, env \in Envs :
        \A r \in {TurnOf(u, content, env)} :
            \A q \in Requests(pending_approvals, approval_history) :
                \E q2 \in Requests(r.pending, r.history) :
                    /\ q2.request_id = q.request_id
                    /\ q2.operation_type = q.operation_type
                    /\ q2.ticket_key = q.ticket_key
                    /\ q2.preview = q.preview

\* C3 as stated: every call made by a turn has the operation type of the stored request
\* and, as arguments, exactly the payload fields stored in it.
C3_ArgumentsEqualStored ==
    /\ PayloadKept
    /\ \A c \in Calls : \E q \in SeqRange(approval_history) :
          /\ q.request_id = c.approval_id
          /\ c.op = q.operation_type
          /\ c.args = StoredPayload(q)

\* C3, amended: every call made by a turn has the operation type of the stored request
\* and, as arguments, the payload fields stored in it, except that a create request
\* whose stored assignee is "Unassigned" is executed with no assignee; and no turn
\* changes what a request stores.
C3_ArgumentsFromStored ==
    /\ PayloadKept
    /\ \A c \in Calls : \E q \in SeqRange(approval_history) :
          /\ q.request_id = c.approval_id
          /\ c.op = q.operation_type
          /\ c.args = StoredPayloadUnassigned(q)

\* request 1, a create, was executed after request 2, of another type, had been
\* created and decided in between
C3_Witness ==
    /\ Len(approval_history) = 2
    /\ approval_history[1].request_id = "2"
    /\ approval_history[2].request_id = "1"
    /\ approval_history[2].operation_type = "create_ticket"
    /\ approval_history[1].operation_type = "transition_ticket"
    /\ \E c \in Calls :
          /\ c.approval_id = "1"
          /\ c.op = "create_ticket"
          /\ c.args.assignee = None
          /\ approval_history[2].preview.assignee = "Unassigned"

\* C10: a turn 'approve <id>' for a pending request leaves the request out of pending
\* and exactly once in history, with status approved, and makes exactly one call on
\* the ticket system in that turn: the operation of the request's type, for that id.
C10_ApproveTurnExecutesOnce ==
    \A id \in RequestIds : InPending(pending_approvals, id) =>
        \A u \in Users, env \in Envs :
            \A r \in {TurnOf(u, "approve " \o id, env)} :
                /\ r.raised = None
                /\ ~InPending(r.pending, id)
                /\ Cardinality(HistoryHits(r.history, id)) = 1
                /\ InHistory(r.history, id, APPROVED)
                /\ Len(r.pending) + Len(r.history)
                       = Len(pending_approvals) + Len(approval_history)
                /\ r.call # NoCall
                /\ r.call.approval_id = id
                /\ r.call.op = get_approval(pending_approvals, id).operation_type

\* a chat turn has approved a request (approved_by is the chat default "user") and the
\* ticket system has been called once for it, with the operation of its type
C10_Witness ==
    \E q \in SeqRange(approval_history) :
        /\ q.status = APPROVED
        /\ q.approved_by = "user"
        /\ CallsFor(q.request_id) = 1
        /\ \E c \in Calls : c.approval_id = q.request_id /\ c.op = q.operation_type

\* C8: each of the five executors, called with the id of a request that is pending,
\* rejected or unknown, raises before any call is made on the ticket system.  (The
\* executors only read the registry: Execute leaves pending and history unchanged.)
C8_ExecutorRefusesUnapproved ==
    \A id \in RequestIds : ~InHistory(approval_history, id, APPROVED) =>
        \A fn \in ExecutorNames, jira_ok \in BOOLEAN :
            \A out \in {CallExecutor(fn, pending_approvals, approval_history, id, jira_ok)} :
                /\ out.raised = "ValueError"
                /\ out.call = NoCall
                /\ out.ret = None

\* one request is pending, one is rejected, one id is unknown, and every executor
\* raises for each of them while it makes a call for no id
C8_Witness ==
    /\ \E id \in RequestIds : InPending(pending_approvals, id)
    /\ \E id \in RequestIds : InHistory(approval_history, id, REJECTED)
    /\ \E id \in RequestIds : ~LookupFound(pending_approvals, approval_history, id)
    /\ \A id \in RequestIds, fn \in ExecutorNames :
          CallExecutor(fn, pending_approvals, approval_history, id, TRUE).raised
              = "ValueError"
    /\ Calls = {}

\* C4: for a pending id, approve returns true and a second approve returns false and
\* changes nothing: the request is out of pending and exactly once in history, with
\* status approved and the first approver.
C4_SecondApproveIsNoOp ==
    \A id \in RequestIds : InPending(pending_approvals, id) =>
        \A by1 \in Approvers, by2 \in Approvers :
            \A r1 \in {approve(pending_approvals, approval_history, id, by1)} :
                \A r2 \in {approve(r1.pending, r1.history, id, by2)} :
                    /\ r1.ret = TRUE
                    /\ r2.ret = FALSE
                    /\ r2.pending = r1.pending
                    /\ r2.history = r1.history
                    /\ ~InPending(r2.pending, id)
                    /\ Cardinality(HistoryHits(r2.history, id)) = 1
                    /\ \A i \in HistoryHits(r2.history, id) :
                          /\ r2.history[i].status = APPROVED
                          /\ r2.history[i].approved_by = by1

\* a request has been approved by alice, and an approve of it by the default user now
\* returns false and leaves the registry as it is
C4_Witness ==
    \E id \in RequestIds :
        /\ \E i \in DOMAIN approval_history :
              /\ approval_history[i].request_id = id
              /\ approval_history[i].status = APPROVED
              /\ approval_history[i].approved_by = "alice"
        /\ \A r \in {approve(pending_approvals, approval_history, id, "user")} :
              /\ r.ret = FALSE
              /\ r.pending = pending_approvals
              /\ r.history = approval_history

Occurrences(s, id) == Cardinality({i \in DOMAIN s : s[i].request_id = id})

\* C5: the identifiers created so far are each exactly once in pending or history,
\* never in both and never twice; and an identifier that is in history stays there
\* and is never in pending again.
C5_ExactlyOneCollection ==
    /\ [](\A id \in RequestIds :
             Occurrences(pending_approvals, id) + Occurrences(approval_history, id)
                 = IF id \in {ToString(n) :
                                 n \in 1..(Len(pending_approvals) + Len(approval_history))}
                   THEN 1 ELSE 0)
    /\ [][\A id \in RequestIds : Occurrences(approval_history, id) = 1 =>
              /\ Occurrences(approval_history', id) = 1
              /\ Occurrences(pending_approvals', id) = 0]_vars

\* one request is in history, another is pending, and an approve or reject of the one
\* in history is refused
C5_Witness ==
    /\ Len(approval_history) = 1
    /\ Len(pending_approvals) = 1
    /\ approval_history[1].request_id # pending_approvals[1].request_id
    /\ ~approve(pending_approvals, approval_history,
                approval_history[1].request_id, "user").ret
    /\ ~reject(pending_approvals, approval_history,
               approval_history[1].request_id, "", "user").ret

\* C6: is_approved(id) becomes true only by a successful approve(id), is true right
\* after one, and once true stays true whatever create, approve or reject call follows.
C6_ApprovedForever ==
    [][\A id \in RequestIds :
          /\ is_approved(pending_approvals, approval_history, id)
                => is_approved(pending_approvals', approval_history', id)
          /\ (~is_approved(pending_approvals, approval_history, id)
                /\ is_approved(pending_approvals', approval_history', id))
                => \E by \in Approvers :
                      \E r \in {approve(pending_approvals, approval_history, id, by)} :
                          r.ret /\ pending_approvals' = r.pending
                                /\ approval_history' = r.history
          /\ \A by \in Approvers :
                \A r \in {approve(pending_approvals, approval_history, id, by)} :
                    /\ r.ret => is_approved(r.pending, r.history, id)
                    /\ ~r.ret => (is_approved(r.pending, r.history, id)
                                    <=> is_approved(pending_approvals, approval_history, id))
      ]_vars

\* request 1 was approved, request 2 was rejected after it, a reject of request 1 is
\* refused, and is_approved still answers true for 1 and false for 2
C6_Witness ==
    /\ Len(approval_history) = 2
    /\ approval_history[1].request_id = "1"
    /\ approval_history[1].status = APPROVED
    /\ approval_history[2].status = REJECTED
    /\ is_approved(pending_approvals, approval_history, "1")
    /\ ~is_approved(pending_approvals, approval_history, "2")
    /\ ~reject(pending_approvals, approval_history, "1", "wrong ticket", "user").ret

\* C9: execute_approved_action makes a call on the ticket system only for a request
\* with status approved; for the id of a rejected request it makes none and reports
\* an error.
C9_ManagerExecutesOnlyApproved ==
    /\ \A c \in Calls : InHistory(approval_history, c.approval_id, APPROVED)
    /\ \A id \in RequestIds : InHistory(approval_history, id, REJECTED) =>
          \A ok \in BOOLEAN :
              \A out \in {execute_approved_action(pending_approvals, approval_history,
                                                   id, ok)} :
                  /\ out.call = NoCall
                  /\ out.ret = "Error: No such approved request."

\* the ticket system has been called for a request that stands rejected
C9_Witness ==
    \E c \in Calls : InHistory(approval_history, c.approval_id, REJECTED)

Done(t) == threads[t].pc = "done"

\* C7: of two approve / reject calls that run concurrently on the same id, at most
\* one returns true and neither ends with an error.
C7_OneWinnerNoError ==
    \A t1 \in ThreadIds, t2 \in ThreadIds :
        (t1 # t2 /\ Done(t1) /\ Done(t2) /\ threads[t1].id = threads[t2].id) =>
            /\ ~(threads[t1].ret = "True" /\ threads[t2].ret = "True")
            /\ threads[t1].raised = None
            /\ threads[t2].raised = None

\* approve returned true for a request that a concurrent reject, which ended with a
\* KeyError, has left with status rejected, twice in history
C7_Witness ==
    \E t1 \in ThreadIds, t2 \in ThreadIds :
        /\ Done(t1) /\ threads[t1].op = "approve" /\ threads[t1].ret = "True"
        /\ Done(t2) /\ threads[t2].op = "reject" /\ threads[t2].raised = "KeyError"
        /\ threads[t1].id = threads[t2].id
        /\ Cardinality(HistoryHits(approval_history, threads[t1].id)) = 2
        /\ \A i \in HistoryHits(approval_history, threads[t1].id) :
              approval_history[i].status = REJECTED

(***************************************************************************)
(* Properties of single turns.                                             *)
(***************************************************************************)
\* the request the turn appended to history, when it appended one
Last(s) == s[Len(s)]

Appended(r) ==
    /\ Len(r.history) = Len(approval_history) + 1
    /\ SubSeq(r.history, 1, Len(approval_history)) = approval_history

RegistryKept(r) == r.pending = pending_approvals /\ r.history = approval_history

NoNewRequest(r) ==
    Len(r.pending) + Len(r.history) = Len(pending_approvals) + Len(approval_history)

\* reasons as the user types them
RejectReasons == {"wrong ticket", "Wrong Ticket", "I do not approve this"}

\* C11: a turn 'reject <id> <reason>' for a pending request removes exactly that request
\* from pending, appends it to history with status rejected and rejection_reason equal
\* to <reason>, and makes no call on the ticket system; and no call is ever made for a
\* request that stands rejected.
C11_RejectTurnStoresReason ==
    /\ \A c \in Calls : ~InHistory(approval_history, c.approval_id, REJECTED)
    /\ \A id \in RequestIds : InPending(pending_approvals, id) =>
          \A reason \in RejectReasons, u \in Users, env \in Envs :
              \A r \in {TurnOf(u, "reject " \o id \o " " \o reason, env)} :
                  /\ r.raised = None
                  /\ r.call = NoCall
                  /\ r.pending = Remove(pending_approvals,
                                        PendingIndex(pending_approvals, id))
                  /\ Appended(r)
                  /\ Last(r.history).request_id = id
                  /\ Last(r.history).status = REJECTED
                  /\ Last(r.history).rejection_reason = reason

\* a request is pending; rejected with the reason "Wrong Ticket" it is stored with
\* "wrong ticket", and rejected with "I do not approve this" it stays pending
C11_Witness ==
    \E id \in RequestIds, u \in Users, env \in Envs :
        /\ InPending(pending_approvals, id)
        /\ \A r \in {TurnOf(u, "reject " \o id \o " Wrong Ticket", env)} :
              /\ Appended(r)
              /\ Last(r.history).request_id = id
              /\ Last(r.history).rejection_reason = "wrong ticket"
        /\ \A r \in {TurnOf(u, "reject " \o id \o " I do not approve this", env)} :
              /\ RegistryKept(r)
              /\ r.texts = <<"Approval request this not found or already processed.">>

\* C12: a turn 'approve <id>' for an id that is not in pending (never created, or
\* already approved or rejected) answers "not found or already processed", leaves
\* pending and history as they are, and calls nothing.
C12_ApproveOfDecidedIsNoOp ==
    \A id \in RequestIds : ~InPending(pending_approvals, id) =>
        \A u \in Users, env \in Envs :
            \A r \in {TurnOf(u, "approve " \o id, env)} :
                /\ r.raised = None
                /\ r.texts = <<"Approval request " \o id
                                  \o " not found or already processed.">>
                /\ RegistryKept(r)
                /\ r.call = NoCall

\* one request stands approved, one rejected, one id was never created, and a turn
\* 'approve <id>' for each of them is answered "not found or already processed"
C12_Witness ==
    \E a \in RequestIds, b \in RequestIds, c \in RequestIds :
        /\ InHistory(approval_history, a, APPROVED)
        /\ InHistory(approval_history, b, REJECTED)
        /\ ~LookupFound(pending_approvals, approval_history, c)
        /\ \A id \in {a, b, c}, u \in Users, env \in Envs :
              \A r \in {TurnOf(u, "approve " \o id, env)} :
                  /\ r.texts = <<"Approval request " \o id
                                    \o " not found or already processed.">>
                  /\ RegistryKept(r)

CreateCommand ==
    "create ticket in ESD summary \"Fix login\" description \"Users cannot log in\""

\* the turn added one request to pending and touched nothing else of the registry
Registered(r) ==
    /\ Len(r.pending) = Len(pending_approvals) + 1
    /\ SubSeq(r.pending, 1, Len(pending_approvals)) = pending_approvals
    /\ r.history = approval_history

\* C13: the create command naming project ESD, summary "Fix login" and a description
\* ends its turn with a new pending request of type create_ticket whose preview carries
\* that project and that summary, and with no call made on the ticket system.
C13_CreatePreviewCarriesCommand ==
    \A u \in Users, env \in Envs :
        \A r \in {TurnOf(u, CreateCommand, env)} :
            /\ r.raised = None
            /\ r.call = NoCall
            /\ Registered(r)
            /\ Last(r.pending).operation_type = "create_ticket"
            /\ Last(r.pending).status = PENDING
            /\ Last(r.pending).preview.project = "ESD"
            /\ Last(r.pending).preview.summary = "Fix login"

\* the create command registers a create_ticket request, but for project "PROJ" with
\* the summary "Example Ticket"
C13_Witness ==
    \E u \in Users, env \in Envs :
        \A r \in {TurnOf(u, CreateCommand, env)} :
            /\ r.raised = None
            /\ r.call = NoCall
            /\ Registered(r)
            /\ Last(r.pending).operation_type = "create_ticket"
            /\ Last(r.pending).preview.project = "PROJ"
            /\ Last(r.pending).preview.summary = "Example Ticket"
            /\ Last(r.pending).preview.description = "Example description"

\* the five write commands with their mandatory fields, as the help text gives them
WriteCommandOf ==
    [create_ticket |-> CreateCommand,
     update_ticket |-> "update ticket ESD-123 set summary \"New summary\"",
     transition_ticket |-> "transition ticket ESD-123 to \"In Progress\"",
     assign_ticket |-> "assign ticket ESD-123 to \"john.doe\"",
     add_comment |-> "comment on ticket ESD-123 \"This is a comment\""]

\* the conversation awaits no approval
Idle(conv) == conv.pending_approval_id = None /\ conv.operation_type = None

\* the turn registered one request of type op and the conversation awaits its approval
RegisteredFor(r, op) ==
    /\ r.raised = None
    /\ r.call = NoCall
    /\ Registered(r)
    /\ Last(r.pending).operation_type = op
    /\ Last(r.pending).status = PENDING
    /\ r.conv.pending_approval_id = Last(r.pending).request_id
    /\ r.conv.operation_type = op

\* C14: from Idle, each of the five write commands given with its mandatory fields ends
\* its turn with exactly one new pending request of that command's operation type, the
\* conversation holding the request's id as pending_approval_id.
C14_WriteCommandRegistersRequest ==
    \A u \in Users : Idle(user_conversations[u]) =>
        \A op \in OperationTypes, env \in Envs :
            RegisteredFor(TurnOf(u, WriteCommandOf[op], env), op)

\* from Idle the create, update, transition and comment commands register their
\* request, and the assign command ends in an UnboundLocalError with nothing registered
C14_Witness ==
    \E u \in Users :
        /\ Idle(user_conversations[u])
        /\ \A op \in OperationTypes \ {"assign_ticket"}, env \in Envs :
              RegisteredFor(TurnOf(u, WriteCommandOf[op], env), op)
        /\ \A env \in Envs :
              \A r \in {TurnOf(u, WriteCommandOf["assign_ticket"], env)} :
                  /\ r.raised = "UnboundLocalError"
                  /\ RegistryKept(r)
                  /\ r.conv = user_conversations[u]

OkEnv == [jira |-> "ok", llm |-> "ok"]

\* what the read of each read command answers when its collaborators answer
ReadAnswer ==
    [content \in ReadCommands |->
        IF content = "summarize ticket ESD-123" THEN "ticket summary" ELSE "tickets listing"]

\* C15: a read command (ticket list, status-filtered list, summarize ticket) creates no
\* approval request, leaves pending and history as they are and makes no call on the
\* ticket system, in every state and with every collaborator outcome; and with the
\* collaborators answering, the turn that receives it ends with the read's answer.
C15_ReadRunsInItsTurn ==
    \A u \in Users, content \in ReadCommands, env \in Envs :
        \A r \in {TurnOf(u, content, env)} :
            /\ RegistryKept(r)
            /\ r.call = NoCall
            /\ env = OkEnv => /\ r.raised = None
                              /\ Len(r.texts) = 2
                              /\ r.texts[2] = ReadAnswer[content]

\* a request is pending, one is decided, a conversation awaits an approval, and in it
\* each read command is answered with the registry left as it was
C15_Witness ==
    \E u \in Users :
        /\ pending_approvals # <<>>
        /\ approval_history # <<>>
        /\ ~Idle(user_conversations[u])
        /\ \A content \in ReadCommands :
              \A r \in {TurnOf(u, content, OkEnv)} :
                  /\ r.raised = None
                  /\ r.texts[2] = ReadAnswer[content]
                  /\ RegistryKept(r)
                  /\ r.call = NoCall

\* the conversation awaits the approval of pending request id
AwaitingApproval(conv, id) ==
    /\ conv.pending_approval_id = id
    /\ conv.operation_type # None
    /\ InPending(pending_approvals, id)

UpdateCommand == "update ticket ESD-123 set summary \"New summary\""

\* C16: while a conversation awaits the approval of request id, a turn whose command
\* is a read command, a fallback message or another write command leaves the
\* conversation's pending_approval_id equal to id and its operation_type unchanged,
\* and creates no new approval request.
C16_AwaitingApprovalIsKept ==
    \A u \in Users, id \in RequestIds :
        AwaitingApproval(user_conversations[u], id) =>
            \A content \in ReadCommands \cup FallbackCommands \cup {CreateCommand, UpdateCommand},
               env \in Envs :
                \A r \in {TurnOf(u, content, env)} :
                    /\ r.conv.pending_approval_id = id
                    /\ r.conv.operation_type = user_conversations[u].operation_type
                    /\ NoNewRequest(r)

\* a conversation awaits the approval of request id; a fallback message and a read
\* command leave it Idle, and an update command registers a second request and leaves
\* the conversation awaiting that one
C16_Witness ==
    \E u \in Users, id \in RequestIds :
        /\ AwaitingApproval(user_conversations[u], id)
        /\ \A content \in {"hello", "show me my tickets"} :
              \A r \in {TurnOf(u, content, OkEnv)} :
                  r.raised = None /\ Idle(r.conv) /\ RegistryKept(r)
        /\ \A r \in {TurnOf(u, UpdateCommand, OkEnv)} :
              /\ RegisteredFor(r, "update_ticket")
              /\ r.conv.pending_approval_id # id
              /\ InPending(r.pending, id)

\* messages that match no approval, write or read pattern of agent_node
Unmatched == FallbackCommands \cup {"show my tickets"}

\* C17: a message that matches no approval, read or write pattern creates no approval
\* request, changes nothing in the registry and makes no call on the ticket system;
\* with the collaborators answering, the turn's only reply is the LLM's reply as it
\* was given and the conversation ends Idle.
C17_FallbackIsLlmOnly ==
    \A u \in Users, content \in Unmatched, env \in Envs :
        \A r \in {TurnOf(u, content, env)} :
            /\ RegistryKept(r)
            /\ r.call = NoCall
            /\ r.raised = None => r.texts = <<"LLM reply">> /\ Idle(r.conv)
            /\ env = OkEnv => r.raised = None

\* a conversation awaits an approval; a turn on "hello" answers with the LLM's reply
\* alone, leaves the registry as it was and ends Idle
C17_Witness ==
    \E u \in Users, id \in RequestIds :
        /\ AwaitingApproval(user_conversations[u], id)
        /\ approval_history # <<>>
        /\ \A r \in {TurnOf(u, "hello", OkEnv)} :
              /\ r.raised = None
              /\ r.texts = <<"LLM reply">>
              /\ Idle(r.conv)
              /\ RegistryKept(r)
              /\ r.call = NoCall

\* messages of the form 'approve <id>' and 'reject <id> [reason]', some of them holding
\* the words of a write pattern
ApprovalForm == ApprovalCommands \cup MixedApprovalCommands

\* the replies of the approval branch of agent_node (lines 95, 104, 126)
ApprovalReplies ==
    {"Approval granted for " \o op \o ". Executing operation..." : op \in OperationTypes}
    \cup {"Approval request " \o x \o " not found or already processed." :
             x \in RequestIds \cup {"this"}}
    \cup {"Operation rejected. Approval request " \o id \o " has been cancelled." :
             id \in RequestIds}

\* C18: a message of the form 'approve <id>' or 'reject <id> [reason]' is answered by
\* the approval branch, also when its text holds the words of a write pattern, and the
\* turn creates no new approval request; 'approve <id> ...' for a pending id approves
\* that request.
C18_ApprovalBranchFirst ==
    \A u \in Users, content \in ApprovalForm, env \in Envs :
        \A r \in {TurnOf(u, content, env)} :
            /\ r.raised = None
            /\ r.texts # <<>>
            /\ r.texts[1] \in ApprovalReplies
            /\ NoNewRequest(r)
            /\ \A id \in RequestIds :
                  /\ InPending(pending_approvals, id)
                  /\ content \in {"approve " \o id, "approve " \o id \o " then create ticket in ESD"}
                  => InHistory(r.history, id, APPROVED)

\* a request is pending and a conversation is Idle: 'approve <id> then create ticket in
\* ESD' approves the request and 'reject <id> create ticket instead' rejects it, and
\* neither registers a request
C18_Witness ==
    \E u \in Users, id \in RequestIds :
        /\ InPending(pending_approvals, id)
        /\ Idle(user_conversations[u])
        /\ \A r \in {TurnOf(u, "approve " \o id \o " then create ticket in ESD", OkEnv)} :
              InHistory(r.history, id, APPROVED) /\ NoNewRequest(r)
        /\ \A r \in {TurnOf(u, "reject " \o id \o " create ticket instead", OkEnv)} :
              InHistory(r.history, id, REJECTED) /\ NoNewRequest(r)

\* the answers of the read paths (tool_node, summarize_ticket_node)
ReadAnswers == {"tickets listing", "ticket summary"}

\* C19: a write command that lacks a mandatory field (no ticket key; a create command
\* without project and summary) registers no approval request and is not executed as
\* a read.
C19_PartialCommandDoesNothing ==
    \A u \in Users, content \in PartialCommands, env \in Envs :
        \A r \in {TurnOf(u, content, env)} :
            /\ RegistryKept(r)
            /\ r.call = NoCall
            /\ \A i \in DOMAIN r.texts : r.texts[i] \notin ReadAnswers

\* 'create ticket' alone registers a create request for project "PROJ", the transition
\* command without a ticket key is answered with the list of tickets in progress, and
\* the update, assign and comment commands without a key go to the LLM
C19_Witness ==
    \E u \in Users :
        /\ Idle(user_conversations[u])
        /\ \A r \in {TurnOf(u, "create ticket", OkEnv)} :
              /\ RegisteredFor(r, "create_ticket")
              /\ Last(r.pending).preview.project = "PROJ"
        /\ \A r \in {TurnOf(u, "transition ticket to \"In Progress\"", OkEnv)} :
              /\ r.raised = None
              /\ r.texts = <<"Fetching tickets with status 'in progress'...", "tickets listing">>
              /\ RegistryKept(r)
        /\ \A content \in PartialCommands \ {"create ticket", "transition ticket to \"In Progress\""} :
              \A r \in {TurnOf(u, content, OkEnv)} :
                  r.texts = <<"LLM reply">> /\ RegistryKept(r)

\* agent_node on the message `content` of user u in the current state
Classified(u, content, env) ==
    agent_node(Merge(ExtraKeys, user_conversations[u]), Facts[content],
               pending_approvals, approval_history, env)

\* C20: for every message agent_node selects its branch without raising an error; the
\* only exception that leaves it is the failure of the LLM asked for the fallback reply.
C20_ClassificationTotal ==
    \A u \in Users, content \in Texts, env \in Envs :
        Classified(u, content, env).raised \in {None, "LLMError"}

\* the assign command of the help text ends agent_node in an UnboundLocalError whatever
\* the collaborators do, and with the ticket system down a message that names no
\* write ends it in the error of the status lookup
C20_Witness ==
    \E u \in Users :
        /\ \A env \in Envs :
              Classified(u, "assign ticket ESD-123 to \"john.doe\"", env).raised
                  = "UnboundLocalError"
        /\ Classified(u, "hello", [jira |-> "down", llm |-> "ok"]).raised = "JIRAError"
        /\ Classified(u, "hello", OkEnv).raised = None

\* the read commands of the command surface (run_agent's help text), in two letter cases
CanonicalReads ==
    {"show my tickets", "show tickets with status In Progress", "summarize ticket ESD-123"}
        \cup CaseCommands

\* the turn ran a read: two replies, the second the read's answer, none from the LLM
ReadExecuted(r) ==
    /\ r.raised = None
    /\ Len(r.texts) = 2
    /\ r.texts[2] \in ReadAnswers
    /\ \A i \in DOMAIN r.texts : r.texts[i] # "LLM reply"
    /\ RegistryKept(r)
    /\ r.call = NoCall

\* C21: each canonical read command ('show my tickets', 'show tickets with status
\* <status>', 'summarize ticket <KEY>', in any letter case) has its read executed in
\* the turn that receives it, and none is answered by the LLM fallback.
C21_CanonicalReadsAreReads ==
    \A u \in Users, content \in CanonicalReads :
        ReadExecuted(TurnOf(u, content, OkEnv))

\* the status-filtered list and the summary are executed in their turn in both letter
\* cases, while 'show my tickets' is answered by the LLM alone
C21_Witness ==
    \E u \in Users :
        /\ \A content \in CanonicalReads \ {"show my tickets"} :
              ReadExecuted(TurnOf(u, content, OkEnv))
        /\ \A r \in {TurnOf(u, "show my tickets", OkEnv)} :
              r.raised = None /\ r.texts = <<"LLM reply">>
        /\ ReadExecuted(TurnOf(u, "show me my tickets", OkEnv))

Set(v) == v \notin {None, ""}

\* C22: after every turn of any conversation, a conversation whose pending_approval_id
\* is set has its operation_type set too.
C22_PendingIdHasOperation ==
    /\ \A u \in Users :
          Set(user_conversations[u].pending_approval_id)
              => Set(user_conversations[u].operation_type)
    /\ \A u \in Users, content \in Texts, env \in Envs :
          \A r \in {TurnOf(u, content, env)} :
              Set(r.conv.pending_approval_id) => Set(r.conv.operation_type)

\* one conversation holds the id of a pending request together with its operation
\* type, after a turn of another one approved and executed a request
C22_Witness ==
    \E u \in Users, v \in Users, id \in RequestIds :
        /\ u # v
        /\ AwaitingApproval(user_conversations[u], id)
        /\ user_conversations[u].operation_type \in OperationTypes
        /\ Idle(user_conversations[v])
        /\ \E c \in Calls : InHistory(approval_history, c.approval_id, APPROVED)

(***************************************************************************)
(* Properties of the registry's operations.                                *)
(***************************************************************************)
RequestIdsOf(s) == {s[i].request_id : i \in DOMAIN s}

\* C23: create_approval_request always succeeds: it returns a request with status
\* pending whose identifier was in neither pending nor history before the call, adds
\* it to pending, and leaves every other request of pending and history as it was.
C23_CreateAddsFreshPending ==
    \A kind \in RequestKinds :
        \A r \in {NewRequest(pending_approvals, approval_history, kind)} :
            /\ r.ret.status = PENDING
            /\ r.ret.request_id \notin RequestIdsOf(pending_approvals)
                                        \cup RequestIdsOf(approval_history)
            /\ r.pending = Append(pending_approvals, r.ret)
            /\ r.history = approval_history
            /\ get_approval(r.pending, r.ret.request_id) = r.ret

\* a request was created and decided, another is pending, and a further create call
\* returns a request with a third identifier
C23_Witness ==
    /\ approval_history # <<>>
    /\ pending_approvals # <<>>
    /\ \A r \in {NewRequest(pending_approvals, approval_history, "create")} :
          /\ Len(r.pending) = Len(pending_approvals) + 1
          /\ r.ret.operation_type = "create_ticket"
          /\ r.ret.request_id \notin RequestIdsOf(pending_approvals)
                                      \cup RequestIdsOf(approval_history)

\* the status of request id, None when there is no such request
StatusOf(pend, hist, id) ==
    IF InPending(pend, id) THEN get_approval(pend, id).status
    ELSE IF HistoryHits(hist, id) # {} THEN hist[FirstHistoryIndex(hist, id)].status
    ELSE None

\* C24: a request's status changes at most once, from pending to approved or to
\* rejected: after a successful approve(id), reject(id) returns false and the status
\* stays approved; after a successful reject(id), approve(id) returns false and the
\* status stays rejected; and no step changes the status of a decided request.
C24_StatusChangesOnce ==
    /\ [](\A id \in RequestIds : InPending(pending_approvals, id) =>
             \A by \in Approvers, reason \in {"", "wrong ticket"} :
                 /\ \A r1 \in {approve(pending_approvals, approval_history, id, by)} :
                       \A r2 \in {reject(r1.pending, r1.history, id, reason, by)} :
                           /\ r1.ret /\ ~r2.ret
                           /\ StatusOf(r1.pending, r1.history, id) = APPROVED
                           /\ StatusOf(r2.pending, r2.history, id) = APPROVED
                           /\ r2.pending = r1.pending /\ r2.history = r1.history
                 /\ \A r1 \in {reject(pending_approvals, approval_history, id, reason, by)} :
                       \A r2 \in {approve(r1.pending, r1.history, id, by)} :
                           /\ r1.ret /\ ~r2.ret
                           /\ StatusOf(r1.pending, r1.history, id) = REJECTED
                           /\ StatusOf(r2.pending, r2.history, id) = REJECTED
                           /\ r2.pending = r1.pending /\ r2.history = r1.history)
    /\ [][\A id \in RequestIds :
             StatusOf(pending_approvals, approval_history, id) \in {APPROVED, REJECTED}
                 => StatusOf(pending_approvals', approval_history', id)
                        = StatusOf(pending_approvals, approval_history, id)]_vars

\* one request stands approved and one rejected; a reject of the approved one and an
\* approve of the rejected one both return false
C24_Witness ==
    \E a \in RequestIds, b \in RequestIds :
        /\ StatusOf(pending_approvals, approval_history, a) = APPROVED
        /\ StatusOf(pending_approvals, approval_history, b) = REJECTED
        /\ \A r \in {reject(pending_approvals, approval_history, a, "wrong ticket", "alice")} :
              ~r.ret /\ r.history = approval_history
        /\ \A r \in {approve(pending_approvals, approval_history, b, "alice")} :
              ~r.ret /\ r.history = approval_history

(***************************************************************************)
(* Failures of the collaborators.                                          *)
(***************************************************************************)
\* the environments in which get_ticket_details raises
FetchFails == {env \in Envs : env.jira # "ok"}

\* write commands whose preview builder fetches the ticket's current state
FetchingCommand ==
    [update_ticket |-> UpdateCommand,
     transition_ticket |-> "transition ticket ESD-123 to \"In Progress\"",
     assign_ticket |-> "assign ticket ESD-123 to approver"]

\* the builder registered request r.ret on top of the current registry
Built(r, op) ==
    /\ r.ret.status = PENDING
    /\ r.ret.operation_type = op
    /\ r.pending = Append(pending_approvals, r.ret)
    /\ r.history = approval_history

\* C25: when the fetch of the ticket's current state fails while an update, transition
\* or assign preview is built, the request is registered as pending all the same, with
\* an empty current view and with the action's payload as it is with a successful
\* fetch: the new values given, and the same arguments for the executor; the turn of
\* the write command ends without exception.
C25_FetchFailureKeepsPreview ==
    /\ \A u \in Users, op \in DOMAIN FetchingCommand, env \in FetchFails :
          \A r \in {TurnOf(u, FetchingCommand[op], env)},
             ok \in {TurnOf(u, FetchingCommand[op], OkEnv)} :
              /\ RegisteredFor(r, op)
              /\ ExecutorArgs(op, Last(r.pending).preview)
                     = ExecutorArgs(op, Last(ok.pending).preview)
    /\ \A summary \in {None, "New summary"}, assignee \in {None, "dave"},
          status \in {None, "Done"} :
          \A r \in {update_ticket_with_approval(pending_approvals, approval_history,
                        "ESD-123", summary, None, assignee, status, "High", NoDetails)} :
              /\ Built(r, "update_ticket")
              /\ r.ret.preview.current_summary = None
              /\ r.ret.preview.current_status = None
              /\ r.ret.preview.current_assignee = None
              /\ UpdateArgs(r.ret.preview)
                     = [ticket_key |-> "ESD-123", summary |-> summary, description |-> None,
                        assignee |-> assignee, status |-> status, priority |-> "High",
                        labels |-> None, custom_fields |-> None]
    /\ \A comment \in {None, "a note"} :
          \A r \in {transition_ticket_with_approval(pending_approvals, approval_history,
                        "ESD-123", "Done", comment, NoDetails)} :
              /\ Built(r, "transition_ticket")
              /\ r.ret.preview.current_status = None
              /\ TransitionArgs(r.ret.preview)
                     = [ticket_key |-> "ESD-123", target_status |-> "Done",
                        comment |-> comment]
    /\ \A r \in {assign_ticket_with_approval(pending_approvals, approval_history,
                     "ESD-123", "dave", NoDetails)} :
          /\ Built(r, "assign_ticket")
          /\ r.ret.preview.current_assignee = "Unassigned"
          /\ AssignArgs(r.ret.preview) = [ticket_key |-> "ESD-123", assignee |-> "dave"]

\* a request is pending, and with the ticket system down a transition command
\* registers a second one whose preview has no current status and the target status
\* of the command's fallback pattern
C25_Witness ==
    \E u \in Users :
        /\ pending_approvals # <<>>
        /\ \A r \in {TurnOf(u, FetchingCommand["transition_ticket"],
                            [jira |-> "down", llm |-> "ok"])} :
              /\ RegisteredFor(r, "transition_ticket")
              /\ Len(r.pending) = 2
              /\ Last(r.pending).preview.current_status = None
              /\ Last(r.pending).ticket_key = "ESD-123"
        /\ \A r \in {TurnOf(u, FetchingCommand["transition_ticket"], OkEnv)} :
              Last(r.pending).preview.current_status = "open"

\* the environments in which the ticket system refuses the mutating call
JiraFails == {env \in Envs : env.jira # "ok"}

\* C26: when the call on the ticket system fails while an approved action is executed,
\* the turn ends without exception with an error message as its reply, the conversation
\* is Idle, and the request is in history with status approved.
C26_ExecutionFailureIsReported ==
    \A id \in RequestIds : InPending(pending_approvals, id) =>
        \A u \in Users, env \in JiraFails :
            \A r \in {TurnOf(u, "approve " \o id, env)} :
                /\ r.raised = None
                /\ r.call # NoCall
                /\ r.call.approval_id = id
                /\ Len(r.texts) = 2
                /\ r.texts[2] = "Error executing operation: JIRAError"
                /\ Idle(r.conv)
                /\ ~InPending(r.pending, id)
                /\ InHistory(r.history, id, APPROVED)

\* a request is pending in a conversation that awaits it; approved with the ticket
\* system down, the call is made and refused and the turn answers with the error
C26_Witness ==
    \E u \in Users, id \in RequestIds :
        /\ AwaitingApproval(user_conversations[u], id)
        /\ \A r \in {TurnOf(u, "approve " \o id, [jira |-> "down", llm |-> "ok"])} :
              /\ r.raised = None
              /\ r.call # NoCall
              /\ r.texts[2] = "Error executing operation: JIRAError"
              /\ Idle(r.conv)
              /\ InHistory(r.history, id, APPROVED)

\* C27: when the ticket system or the LLM fails during a read command or a fallback
\* reply, the conversation state after the turn is Idle, whatever it was before.
C27_ProviderFailureResetsToIdle ==
    \A u \in Users, content \in ReadCommands \cup Unmatched, env \in Envs \ {OkEnv} :
        Idle(TurnOf(u, content, env).conv)

\* a conversation awaits an approval; a ticket list with the ticket system down and a
\* fallback message with the LLM down end in an exception that leaves the turn, and
\* the conversation still holds the request's id
C27_Witness ==
    \E u \in Users, id \in RequestIds :
        /\ AwaitingApproval(user_conversations[u], id)
        /\ \A r \in {TurnOf(u, "show me my tickets", [jira |-> "down", llm |-> "ok"])} :
              /\ r.raised = "JIRAError"
              /\ r.texts = <<>>
              /\ r.conv.pending_approval_id = id
        /\ \A r \in {TurnOf(u, "hello", [jira |-> "ok", llm |-> "down"])} :
              /\ r.raised = "LLMError"
              /\ r.conv = user_conversations[u]

(***************************************************************************)
(* Liveness of the execution.                                              *)
(***************************************************************************)
Executed(id) == \E c \in Calls : c.approval_id = id

\* C28: every request that reaches status approved, by a chat 'approve <id>' turn or
\* by the front end's approve entry point, eventually has its action executed, the
\* users going on sending commands and the ticket system answering.
C28_ApprovedIsEventuallyExecuted ==
    \A id \in RequestIds :
        InHistory(approval_history, id, APPROVED) ~> Executed(id)

\* a request stands approved by the reviewer through the front end and has not been
\* executed; the conversations are Idle, and a turn 'approve <id>' of any user answers
\* "not found or already processed" and calls nothing
C28_Witness ==
    \E id \in RequestIds :
        /\ \E i \in DOMAIN approval_history :
              /\ approval_history[i].request_id = id
              /\ approval_history[i].status = APPROVED
              /\ approval_history[i].approved_by = "alice"
        /\ ~Executed(id)
        /\ \A u \in Users :
              /\ Idle(user_conversations[u])
              /\ \A r \in {TurnOf(u, "approve " \o id, OkEnv)} :
                    /\ r.call = NoCall
                    /\ r.texts = <<"Approval request " \o id
                                      \o " not found or already processed.">>

\* the position of identifier id in the order of creation
CreationNumber(id) == CHOOSE n \in 1..(MaxRequests + 2) : ToString(n) = id

\* the identifiers created so far
CreatedIds == {ToString(n) : n \in 1..(Len(pending_approvals) + Len(approval_history))}

\* C29: get_pending_approvals returns exactly the requests that were created and are
\* not yet approved or rejected, each once, in creation order; and appending to or
\* removing from the returned list leaves the registry's pending collection as it is.
C29_PendingSnapshot ==
    \A r \in {get_pending_approvals(pending_approvals)} :
        /\ RequestIdsOf(r.items) = CreatedIds \ RequestIdsOf(approval_history)
        /\ \A i \in DOMAIN r.items, j \in DOMAIN r.items :
              i < j => CreationNumber(r.items[i].request_id)
                           < CreationNumber(r.items[j].request_id)
        /\ \A i \in DOMAIN r.items : r.items[i].status = PENDING
        /\ \A i \in DOMAIN approval_history :
              approval_history[i].status \in {APPROVED, REJECTED}
        /\ \A items \in {<<>>, r.items \o r.items}
                        \cup {Remove(r.items, i) : i \in DOMAIN r.items} :
              PendingAfterCallerWrites(pending_approvals, r, items) = pending_approvals

\* request 1 was decided and request 2 is pending: the list returned holds request 2
\* alone, and emptying it leaves request 2 pending in the registry
C29_Witness ==
    /\ RequestIdsOf(approval_history) = {"1"}
    /\ \A r \in {get_pending_approvals(pending_approvals)} :
          /\ Len(r.items) = 1
          /\ r.items[1].request_id = "2"
          /\ PendingAfterCallerWrites(pending_approvals, r, <<>>) = pending_approvals
          /\ InPending(pending_approvals, "2")

(***************************************************************************)
(* Concurrent chat requests (web/app.py chat).  chat is a coroutine of the *)
(* server's event loop; a request t goes through                           *)
(*   "chat_invoke": it has read the conversation state (lines 194-210),    *)
(*   "chat_write":  langgraph_app.invoke has returned (line 213),          *)
(*   "done":        it has stored the new state (lines 222-244), or the    *)
(*                  exception has become HTTP 500 (lines 264-266).         *)
(* The loop runs a coroutine until it awaits or returns.                   *)
(***************************************************************************)
Awaits_AroundInvoke(pc) == pc \in {"chat_invoke", "chat_write"}

\* whether the coroutine is suspended at an await when at pc: chat has no await
Awaits(pc) == FALSE

\* the loop is free for request t: every other request has not started, has returned,
\* or is suspended at an await
LoopFree(t) ==
    \A o \in ThreadIds \ {t} : threads[o].pc \in {"idle", "done"} \/ Awaits(threads[o].pc)

AsyncTexts == {CreateCommand, UpdateCommand, "approve 1", "hello", "show me my tickets"}

\* lines 194-210: the request of user u starts and reads the conversation state
ChatRead(t, u, content) ==
    /\ threads[t].pc = "idle"
    /\ LoopFree(t)
    /\ threads' = [threads EXCEPT ![t] = [IdleThread EXCEPT !.pc = "chat_invoke",
                                                             !.op = "chat",
                                                             !.id = content,
                                                             !.by = u,
                                                             !.ret = user_conversations[u]]]
    /\ UNCHANGED <<pending_approvals, approval_history, user_conversations, jira_calls>>

\* line 213: langgraph_app.invoke(input_state), on the state read before
ChatInvoke(t) ==
    /\ threads[t].pc = "chat_invoke"
    /\ LoopFree(t)
    /\ \E r \in {handle(threads[t].ret, threads[t].id, pending_approvals,
                        approval_history, OkEnv)} :
          /\ Len(r.pending) + Len(r.history) <= MaxRequests
          /\ BagCardinality(Record(jira_calls, r.call)) <= MaxCalls
          /\ pending_approvals' = r.pending
          /\ approval_history' = r.history
          /\ jira_calls' = Record(jira_calls, r.call)
          /\ threads' = [threads EXCEPT ![t].pc = IF r.raised = None THEN "chat_write"
                                                   ELSE "done",
                                        ![t].ret = r.conv,
                                        ![t].raised = r.raised]
    /\ UNCHANGED user_conversations

\* lines 222-244: the state of the result is stored
ChatWrite(t) ==
    /\ threads[t].pc = "chat_write"
    /\ LoopFree(t)
    /\ user_conversations' = [user_conversations EXCEPT ![threads[t].by] = threads[t].ret]
    /\ threads' = [threads EXCEPT ![t].pc = "done"]
    /\ UNCHANGED <<pending_approvals, approval_history, jira_calls>>

NextAsync ==
    \/ \E t \in ThreadIds, u \in Users, content \in AsyncTexts : ChatRead(t, u, content)
    \/ \E t \in ThreadIds : ChatInvoke(t)
    \/ \E t \in ThreadIds : ChatWrite(t)

\* two chat requests arrive at the server, the users' first
SpecAsync == Init /\ [][NextAsync]_vars

\* the state after the turns on c1 and then c2 of one conversation, from the start
Serial(c1, c2) ==
    Only({[conv |-> r2.conv, pending |-> r2.pending, history |-> r2.history] :
            r2 \in UNION {{handle(r1.conv, c2, r1.pending, r1.history, OkEnv)} :
                            r1 \in {handle(IdleState, c1, <<>>, <<>>, OkEnv)}}})

BothDone == \A t \in ThreadIds : threads[t].pc = "done"

C31_FailedApproveKeepsConversation ==
    \A u \in Users, j \in RequestIds :
        AwaitingApproval(user_conversations[u], j) =>
            \A id \in RequestIds : ~InPending(pending_approvals, id) =>
                \A env \in Envs :
                    \A r \in {TurnOf(u, "approve " \o id, env)} :
                        /\ r.conv.pending_approval_id = j
                        /\ r.conv.operation_type = user_conversations[u].operation_type

\* a conversation awaits the approval of request j, and a turn 'approve <id>' for an
\* id that is not pending answers "not found" and leaves the conversation Idle, with
\* request j still pending
C31_Witness ==
    \E u \in Users, j \in RequestIds, id \in RequestIds :
        /\ AwaitingApproval(user_conversations[u], j)
        /\ ~InPending(pending_approvals, id)
        /\ \A r \in {TurnOf(u, "approve " \o id, OkEnv)} :
              /\ r.raised = None
              /\ r.texts = <<"Approval request " \o id
                                \o " not found or already processed.">>
              /\ Idle(r.conv)
              /\ InPending(r.pending, j)

(***************************************************************************)
(* Repeated calls of the executors.                                        *)
(***************************************************************************)
\* C32: a call of an executor function with an approval id whose action has already
\* been executed (the ticket system has been called for it) is rejected with an error
\* and makes no call on the ticket system.
C32_SecondExecuteIsRejected ==
    \A id \in RequestIds : Executed(id) =>
        \A fn \in ExecutorNames, jira_ok \in BOOLEAN :
            \A out \in {CallExecutor(fn, pending_approvals, approval_history, id, jira_ok)} :
                /\ out.raised # None
                /\ out.call = NoCall

\* the action of an approved create request has been executed once, and a second call
\* of execute_create_ticket with its id raises nothing and calls the ticket system
\* again, with the same arguments
C32_Witness ==
    \E id \in RequestIds :
        /\ InHistory(approval_history, id, APPROVED)
        /\ CallsFor(id) = 1
        /\ \A out \in {CallExecutor("execute_create_ticket", pending_approvals,
                                    approval_history, id, TRUE)} :
              /\ out.raised = None
              /\ out.call \in Calls
              /\ out.call.op = "create_ticket"

(***************************************************************************)
(* A chat turn 'approve <id>' whose approve call runs statement by         *)
(* statement beside a reject call of the front end (web/app.py             *)
(* reject_request), as in SpecThreads.  The turn is ChatUser's; what       *)
(* follows the approve call in the turn (the rest of agent_node, the       *)
(* router, execute_node, the front end's store) is one step.               *)
(***************************************************************************)
ChatUser == "alice"

\* the state agent_node returns after approve returned true (lines 90-101), the routed
\* node run on it, and the conversation state the front end keeps
TurnAfterApprove(s1, b) ==
    [call |-> b.call,
     conv |-> IF b.node.raised # None THEN user_conversations[ChatUser]
              ELSE Kept(Merge(s1, b.node.upd))]

GrantedState(pend, hist, id, conv) ==
    Merge(Merge(ExtraKeys, conv),
          [Cleared(conv) EXCEPT !.pending_approval_id = id,
                                !.operation_type =
                                    GrantedOperation(conv, Lookup(pend, hist, id))])

\* the approve call of the turn has returned or raised: the turn goes on to its end
TurnReturns(t) ==
    /\ threads[t].pc = "done"
    /\ threads[t].op = "approve"
    /\ threads' = [threads EXCEPT ![t].pc = "turn_done"]
    /\ IF threads[t].raised # None
       THEN UNCHANGED <<user_conversations, jira_calls>>
       ELSE IF threads[t].ret = "True"
       THEN \E s1 \in {GrantedState(pending_approvals, approval_history, threads[t].id,
                                    user_conversations[ChatUser])} :
               \E r \in {TurnAfterApprove(s1,
                            RoutedNode(route_after_agent(s1, pending_approvals,
                                                         approval_history),
                                       s1, pending_approvals, approval_history, OkEnv))} :
                  /\ BagCardinality(Record(jira_calls, r.call)) <= MaxCalls
                  /\ jira_calls' = Record(jira_calls, r.call)
                  /\ user_conversations' =
                         [user_conversations EXCEPT ![ChatUser] = r.conv]
       ELSE /\ user_conversations' =
                   [user_conversations EXCEPT ![ChatUser] = Cleared(@)]
            /\ UNCHANGED jira_calls
    /\ UNCHANGED <<pending_approvals, approval_history>>

\* a call on a request that is pending when the call is made
BeginOnPending(t, op, id, by) ==
    /\ InPending(pending_approvals, id)
    /\ Begin(t, op, id, by)

NextTurnThreads ==
    \/ \E kind \in RequestKinds : Request(kind)
    \/ \E t \in ThreadIds, id \in RequestIds : BeginOnPending(t, "approve", id, "user")
    \/ \E t \in ThreadIds, id \in RequestIds, u \in Reviewers :
          BeginOnPending(t, "reject", id, u)
    \/ \E t \in ThreadIds : CheckPending(t)
    \/ \E t \in ThreadIds : ReadPending(t)
    \/ \E t \in ThreadIds : WriteStatus(t)
    \/ \E t \in ThreadIds : WriteReason(t)
    \/ \E t \in ThreadIds : WriteBy(t)
    \/ \E t \in ThreadIds : AppendHistory(t)
    \/ \E t \in ThreadIds : DeletePending(t)
    \/ \E t \in ThreadIds : TurnReturns(t)

\* requests are created; a chat turn 'approve <id>' and a front-end reject run, the
\* statements of their registry calls interleaving
SpecTurnThreads == Init /\ [][NextTurnThreads]_vars

\* the approve turn t1 and the reject call t2 on the same request have both ended
ApproveAndRejectEnded(t1, t2) ==
    /\ threads[t1].op = "approve" /\ threads[t1].pc = "turn_done"
    /\ threads[t2].op = "reject" /\ threads[t2].pc = "done"
    /\ threads[t1].id = threads[t2].id

\* C33: when a chat turn 'approve <id>' and a reject of the same pending id run
\* concurrently, the statements of their registry calls interleaving, a request whose
\* reject call returned true is not executed, and the request ends out of pending and
\* exactly once in history.
C33_ConcurrentRejectWins ==
    \A t1 \in ThreadIds, t2 \in ThreadIds :
        ApproveAndRejectEnded(t1, t2) =>
            /\ threads[t2].ret = "True" => ~Executed(threads[t1].id)
            /\ ~InPending(pending_approvals, threads[t1].id)
            /\ Cardinality(HistoryHits(approval_history, threads[t1].id)) = 1

\* the reject call returned true and the approve call of the turn ended with a
\* KeyError: the request was not executed, and is in history twice, with status
\* approved
C33_Witness ==
    \E t1 \in ThreadIds, t2 \in ThreadIds :
        /\ ApproveAndRejectEnded(t1, t2)
        /\ threads[t2].ret = "True"
        /\ threads[t1].raised = "KeyError"
        /\ ~Executed(threads[t1].id)
        /\ Cardinality(HistoryHits(approval_history, threads[t1].id)) = 2
        /\ \A i \in HistoryHits(approval_history, threads[t1].id) :
              approval_history[i].status = APPROVED

(***************************************************************************)
(* The conversation at the end of a turn.                                  *)
(***************************************************************************)
\* the turn ended with the conversation Idle, or awaiting the approval of a request
\* that is pending
EndsIdleOrAwaiting(r) ==
    \/ Idle(r.conv)
    \/ /\ r.conv.pending_approval_id # None
       /\ r.conv.operation_type # None
       /\ InPending(r.pending, r.conv.pending_approval_id)

C35_StatusMatchesCollection ==
    /\ \A i \in DOMAIN pending_approvals : pending_approvals[i].status = PENDING
    /\ \A i \in DOMAIN approval_history :
          approval_history[i].status \in {APPROVED, REJECTED}
    /\ \A q \in Requests(pending_approvals, approval_history) : q.status # EXPIRED

\* a request waits in pending with status pending beside a decided one in history
C35_Witness ==
    /\ \E i \in DOMAIN pending_approvals : pending_approvals[i].status = PENDING
    /\ \E i \in DOMAIN approval_history :
          approval_history[i].status \in {APPROVED, REJECTED}

(***************************************************************************)
(* Update requests made by direct calls of the preview builder             *)
(* (jira_operations_approved.py update_ticket_with_approval), approved,    *)
(* and executed by execute_update_ticket.                                  *)
(***************************************************************************)
LongDescription ==
    "The login page rejects every password since the last release, for all users of the portal, on every browser."

UpdateInputs ==
    {[ticket_key |-> "ESD-123", summary |-> "New summary", description |-> d,
      assignee |-> None, status |-> None, priority |-> "High"] :
        d \in {"Users cannot log in", LongDescription}}
    \cup {[ticket_key |-> "ESD-123", summary |-> None, description |-> None,
           assignee |-> "dave", status |-> "Done", priority |-> None]}

BuildUpdate(pend, hist, input, current) ==
    update_ticket_with_approval(pend, hist, input.ticket_key, input.summary,
                                input.description, input.assignee, input.status,
                                input.priority, current)

\* a caller builds the preview of an update
RequestUpdate(input, current) ==
    \E r \in {BuildUpdate(pending_approvals, approval_history, input, current)} :
        /\ Len(r.pending) + Len(r.history) <= MaxRequests
        /\ pending_approvals' = r.pending
        /\ approval_history' = r.history
        /\ UNCHANGED <<user_conversations, jira_calls, threads>>

NextUpdates ==
    \/ \E input \in UpdateInputs, current \in {SomeDetails, NoDetails} :
          RequestUpdate(input, current)
    \/ \E id \in RequestIds, by \in Approvers : approve_request(id, by)
    \/ \E id \in RequestIds, by \in Approvers : reject_request(id, "", by)
    \/ \E id \in RequestIds, ok \in BOOLEAN : Execute("execute_update_ticket", id, ok)

SpecUpdates == Init /\ [][NextUpdates]_vars

\* the call execute_update_ticket makes for a request built from `input` in the
\* current registry and then approved
ExecutedUpdateOf(input, current) ==
    Only({execute_update_ticket(a.pending, a.history, a.id, TRUE).call :
            a \in UNION {{[id |-> r.ret.request_id] @@
                              approve(r.pending, r.history, r.ret.request_id, "user")} :
                           r \in {BuildUpdate(pending_approvals, approval_history,
                                              input, current)}}})

\* C36: the arguments an approved update is executed with equal, field by field, the
\* arguments given to the preview builder when the request was created; the
\* description sent to the ticket system is the one supplied, whatever its length.
C36_UpdateArgumentsAsGiven ==
    \A input \in UpdateInputs, current \in {SomeDetails, NoDetails} :
        \A c \in {ExecutedUpdateOf(input, current)} :
            /\ c.op = "update_ticket"
            /\ \A k \in DOMAIN input : c.args[k] = input[k]

\* an update built with the description "Users cannot log in" was approved and
\* executed: the ticket system received the other arguments as given and the
\* description with "..." appended
C36_Witness ==
    \E c \in Calls :
        /\ c.op = "update_ticket"
        /\ InHistory(approval_history, c.approval_id, APPROVED)
        /\ c.args.summary = "New summary"
        /\ c.args.priority = "High"
        /\ c.args.description = "Users cannot log in..."

(***************************************************************************)
(* What a reject turn reports.                                             *)
(***************************************************************************)
RejectedText(id) ==
    <<"Operation rejected. Approval request " \o id \o " has been cancelled.">>

\* C37: whenever a turn answers that the operation of request id was rejected and
\* cancelled, request id is in history with status rejected after the turn; for an id
\* that is unknown or already approved the turn reports no rejection.
C37_ReportedRejectionIsRecorded ==
    \A u \in Users, id \in RequestIds, env \in Envs :
        \A r \in {TurnOf(u, "reject " \o id \o " wrong ticket", env)} :
            r.texts = RejectedText(id) => InHistory(r.history, id, REJECTED)

\* request a is approved and executed and id b was never created; a turn 'reject <id>'
\* answers for each that the operation was rejected and cancelled, and leaves the
\* registry as it was
C37_Witness ==
    \E a \in RequestIds, b \in RequestIds :
        /\ InHistory(approval_history, a, APPROVED)
        /\ Executed(a)
        /\ ~LookupFound(pending_approvals, approval_history, b)
        /\ \A id \in {a, b}, u \in Users :
              \A r \in {TurnOf(u, "reject " \o id \o " wrong ticket", OkEnv)} :
                  /\ r.texts = RejectedText(id)
                  /\ RegistryKept(r)
                  /\ ~InHistory(r.history, id, REJECTED)

(***************************************************************************)
(* Write commands whose free text holds an approval word.                  *)
(***************************************************************************)
\* C38: a write command whose free text holds the word 'approve' or 'reject' is handled
\* as that write command: it registers its own request, and neither approves, rejects
\* nor executes a request named in the text.
C38_WriteCommandWithApprovalWord ==
    \A u \in Users, content \in WordCommands, env \in Envs :
        RegisteredFor(TurnOf(u, content, env), "add_comment")

\* request id is pending; the comment command whose comment is "I approve <id> as it
\* is" approves and executes request id and registers nothing, the one whose comment is
\* "we reject 1 for now" answers with a rejection and registers nothing, and the one
\* whose comment is "budget approved" registers its comment request
C38_Witness ==
    \E u \in Users, id \in RequestIds :
        /\ InPending(pending_approvals, id)
        /\ \A r \in {TurnOf(u, "comment on ticket ESD-123 \"I approve " \o id
                                   \o " as it is\"", OkEnv)} :
              /\ r.raised = None
              /\ InHistory(r.history, id, APPROVED)
              /\ r.call # NoCall
              /\ r.call.approval_id = id
              /\ NoNewRequest(r)
        /\ \A r \in {TurnOf(u, "comment on ticket ESD-123 \"we reject 1 for now\"", OkEnv)} :
              /\ r.texts = RejectedText("1")
              /\ NoNewRequest(r)
        /\ RegisteredFor(TurnOf(u, "comment on ticket ESD-123 \"budget approved\"", OkEnv),
                         "add_comment")

(***************************************************************************)
(* The pending-approval summary in the reply of the chat entry point       *)
(* (web/app.py lines 246-262).                                             *)
(***************************************************************************)
\* approval_info: the latest of all pending requests, or None (no request_id)
PendingApprovalInfo(pend) ==
    IF get_pending_approvals(pend).items = <<>> THEN [request_id |-> None]
    ELSE [request_id |-> Last(pend).request_id,
          operation_type |-> Last(pend).operation_type,
          ticket_key |-> Last(pend).ticket_key,
          preview |-> Last(pend).preview]

\* the summary user u receives with the reply to `content`, sent after user v's turn
\* on `before`
InfoAfterOther(u, content, v, before) ==
    Only({PendingApprovalInfo(handle(user_conversations[u], content, o.pending,
                                     o.history, OkEnv).pending) :
            o \in {TurnOf(v, before, OkEnv)}})

SameInfo(a, b) == a.request_id = b.request_id /\ (a.request_id # None => a = b)

\* C39: the pending-approval summary the chat entry point returns to a user does not
\* depend on the commands of another user: the reply to a message of user u carries
\* the same summary whether or not another user's turn came just before it.
C39_SummaryIndependentOfOthers ==
    \A u \in Users, v \in Users : u # v =>
        \A content \in {"hello", "show me my tickets"},
           before \in {CreateCommand, UpdateCommand, "hello"} :
            SameInfo(InfoAfterOther(u, content, v, before),
                     PendingApprovalInfo(TurnOf(u, content, OkEnv).pending))

\* user u's conversation awaits the approval of request id, the only pending one: the
\* reply to u's "hello" carries the summary of request id, and, after a create command
\* of user v, the summary of v's create request
C39_Witness ==
    \E u \in Users, v \in Users, id \in RequestIds :
        /\ u # v
        /\ AwaitingApproval(user_conversations[u], id)
        /\ Idle(user_conversations[v])
        /\ Len(pending_approvals) = 1
        /\ PendingApprovalInfo(TurnOf(u, "hello", OkEnv).pending).request_id = id
        /\ InfoAfterOther(u, "hello", v, CreateCommand).request_id # id
        /\ InfoAfterOther(u, "hello", v, CreateCommand).operation_type = "create_ticket"

====
